---- MODULE Spec2Model ----
(***************************************************************************)
(* The workflow execution engine of src/WorkflowManager.py:                *)
(* WorkflowContext (shared mutable state), WorkflowStep.run (pre-hooks,    *)
(* main operation with bounded retry, post-hooks) and Workflow.run (the    *)
(* sequential runner with its resume cursor).                              *)
(*                                                                         *)
(* Every statement of WorkflowStep.run and Workflow.run that reads or      *)
(* writes the shared context is one action, so that a request_stop issued  *)
(* by another thread can land between any two of them.  Hooks, the main    *)
(* operation and the progress listeners are opaque callables: a hook or a  *)
(* listener may call request_stop, the main operation may raise.           *)
(***************************************************************************)
EXTENDS Integers, Sequences, FiniteSets, TLC

\* ---------------------------------------------------------------- bounds
\* Workflows of at most MaxSteps steps.
MaxSteps == 2
\* The size of a workflow beyond its bare steps: the number of its hooks
\* (pre and post, of all steps) plus the sum of its steps' retry budgets is
\* at most MaxExtras.
MaxExtras == 2
\* The calls of the Context's operations (object store, data, listeners)
\* made from outside a run.
MaxOps == 3

\* How often a step may begin on one Context before its hooks and the
\* listeners stop raising.
MaxRuns == 2

\* ------------------------------------------------------------- constants
\* The value of a field a metadata record does not hold (dict key missing).
Absent == "absent"
\* Python's True as the value of a metadata key.
True == "True"
\* The text of the exception a failing main operation raises (str(e)).
ErrorText == "error"
\* traceback.format_exc() of that exception.
TracebackText == "traceback"
\* The classes of the exceptions a failing main operation raises: Exception
\* stands for itself and each of its subclasses.
Raises == {"Exception"}

\* Threads of control that can execute Workflow.run: the caller's thread
\* (Workflow.run) and the thread of run_in_background.
Threads == {"caller", "background"}

\* Sum of f[x] over the finite domain of f.
RECURSIVE SumOver(_, _)
SumOver(f, S) ==
    IF S = {} THEN 0
    ELSE LET x == CHOOSE y \in S : TRUE
         IN  f[x] + SumOver(f, S \ {x})

\* What a step adds to the size of its workflow.
Extras(step) == step.pre_funcs + step.post_funcs + step.max_retries

\* A WorkflowStep after __init__, without its identifier: the lengths of
\* pre_funcs and post_funcs, and max_retries (popped from main_params,
\* default 0).  Hook j of a list stands for the callable at position j; it
\* returns j.
StepShapes ==
    { sh \in [pre_funcs : 0 .. MaxExtras,
              post_funcs : 0 .. MaxExtras,
              max_retries : 0 .. MaxExtras] : Extras(sh) <= MaxExtras }

\* What the hooks of a step do besides returning their value.  "mark" hooks
\* are arbitrary callables: each writes a key of its own into the metadata
\* record it is given and may call context.request_stop().  "autofocus"
\* hooks only write their key (lines 161-163, 178-184); "save_data" hooks
\* only call context.update_metadata(metadata["step_id"], "saved", True)
\* (lines 165-167); "faulty" hooks write their key and return, or raise.
HookKinds == {"mark", "autofocus", "save_data", "faulty"}

\* What the main operation of a step does, by the number n of attempts made
\* before in this Step.run: "any" is an arbitrary callable, "ok" returns,
\* "fail_once" raises on the first attempt of a Step.run and returns on the
\* others, "fail_always" raises.
MainFuncs == {"any", "ok", "fail_once", "fail_always"}

\* A WorkflowStep.__init__ that reads max_retries and leaves it in the dict.
WorkflowStep_init_Get(id, main, params, pre, post, hooks) ==
    [step_id |-> id,
     main_func |-> main,
     main_params |-> params,
     pre_funcs |-> pre,
     post_funcs |-> post,
     hook_kind |-> hooks,
     max_retries |-> IF "max_retries" \in DOMAIN params THEN params["max_retries"] ELSE 0]

\* WorkflowStep.__init__ (lines 59-68): main is what main_func does, params
\* the main_params dict the caller gives; max_retries is popped from it,
\* default 0.  pre and post are the lengths of pre_funcs and post_funcs,
\* hooks what those callables do.
WorkflowStep_init(id, main, params, pre, post, hooks) ==
    [step_id |-> id,
     main_func |-> main,
     main_params |-> [key \in (DOMAIN params) \ {"max_retries"} |-> params[key]],
     pre_funcs |-> pre,
     post_funcs |-> post,
     hook_kind |-> hooks,
     max_retries |-> IF "max_retries" \in DOMAIN params THEN params["max_retries"] ELSE 0]

\* The WorkflowStep of shape sh with identifier id: its main operation is
\* an arbitrary callable of one parameter x, its hooks are "mark" hooks.
WorkflowStep(id, sh) ==
    WorkflowStep_init(id, "any", [x |-> id, max_retries |-> sh.max_retries],
                      sh.pre_funcs, sh.post_funcs, "mark")

\* The step lists Workflow.__init__ is given: n steps, indexed from 0 as in
\* the Python list, step s carrying the identifier s.
Workflows ==
    UNION { { [s \in 0 .. (n - 1) |-> WorkflowStep(s, shapes[s])] :
                shapes \in { x \in [0 .. (n - 1) -> StepShapes] :
                               SumOver([s \in 0 .. (n - 1) |-> Extras(x[s])],
                                       0 .. (n - 1)) <= MaxExtras } }
            : n \in 1 .. MaxSteps }

VARIABLES
    \* Workflow
    steps,                  \* Workflow.steps
    \* WorkflowContext
    data,                   \* context.data: step_id -> metadata record
    should_stop,            \* context.should_stop
    current_step_index,     \* context.current_step_index
    \* locals of Workflow.run / WorkflowStep.run, per thread
    pc,                     \* the statement the thread is at
    i,                      \* Workflow.run: the loop variable i
    k,                      \* WorkflowStep.run: position in pre_funcs / post_funcs
    retries,                \* WorkflowStep.run: retries
    metadata,               \* WorkflowStep.run: metadata
    retval,                 \* the value WorkflowStep.run returned to line 145
    \* history (not program state)
    resumed,                \* the Context was resumed: should_stop cleared or run called again
    callCursor,             \* per thread: current_step_index when run was called
    attempts,               \* per thread: main_func calls of the Step.run in progress or just returned
    failures,               \* per thread: those of them that raised
    evlog,                  \* per thread: the statuses that Step.run emitted, in order
    calls,                  \* per thread: the hook and main_func calls of that Step.run, in order:
                            \*   <<"pre", j, the record given>>, <<"post", j, the record given>>,
                            \*   <<"main", n, should_stop at the call, the arguments given>>
    startLog,               \* per thread: the steps that emitted 'started' in this run, in order
    nStarted,               \* per step: 'started' events emitted
    emitted,                \* per step: a progress event was emitted for it
    hooked,                 \* per step: one of its hooks was invoked
    mainInvoked,            \* per step: its main_func was invoked
    lastExit,               \* per step: how its last Step.run returned
    extStop,                \* request_stop was called (listener, hook or thread)
    received,               \* what the "recorder" listener of 'progress' was given, in order
    \* WorkflowContext: object store and listeners
    objects,                \* context.objects: key -> object
    event_listeners,        \* context.event_listeners: event name -> callbacks, in order
    emitting,               \* the emit_event call in progress: name, position, callbacks invoked
    \* Workflow.run_in_background
    handle,                 \* the Thread that run_in_background returned
    \* history (not program state)
    oplog,                  \* the calls of the Context's data and object operations, in order
    atStop,                 \* what the caller's request_stop found of the background run
    firstRun,               \* the Context a first run left behind, kept when a fresh one replaces it
    constructed             \* the step list as Workflow.__init__ was given it

ctxVars == <<data, should_stop, current_step_index>>
localVars == <<pc, i, k, retries, metadata, retval>>
stepHist == <<nStarted, emitted, received, hooked, mainInvoked, lastExit>>
threadHist == <<attempts, failures, evlog, calls>>
apiVars == <<objects, event_listeners, emitting, handle, oplog, atStop, firstRun, constructed>>
vars == <<steps, apiVars, ctxVars, localVars, resumed, callCursor, startLog, threadHist, stepHist, extStop>>

nSteps == Cardinality(DOMAIN steps)
StepIdx == DOMAIN steps

\* A metadata dict that is given its post_result list from the start.
NoMetadata_WithPostResult ==
    [step_id |-> Absent, x |-> Absent, pre_result |-> Absent, result |-> Absent,
     error |-> Absent, traceback |-> Absent, post_result |-> <<>>,
     marks |-> {}, saved |-> Absent]

\* The metadata dict before line 77 runs / of a thread outside Step.run: the
\* empty dict.  A dict is a record over the keys in use, Absent standing for
\* a key the dict does not hold; marks is the set of the keys that "mark"
\* hooks have written.
NoMetadata ==
    [step_id |-> Absent, x |-> Absent, pre_result |-> Absent, result |-> Absent,
     error |-> Absent, traceback |-> Absent, post_result |-> Absent,
     marks |-> {}, saved |-> Absent]

\* The event names in use; the engine emits 'progress' only.
EventNames == {"progress", "other"}

\* The callbacks in use: "f" and "g" return at once; "recorder" appends the
\* payload it is given to a list and returns; "any" is an arbitrary
\* callable, which may call context.request_stop(); "stop_on_started" calls
\* context.request_stop() when the status of its payload is 'started';
\* "faulty" returns or raises.
Callbacks == {"f", "g", "recorder", "any", "stop_on_started", "faulty"}

\* event_listeners of a Context on which callbacks cbs were subscribed to
\* 'progress', in that order (line 37).
listeners_of(cbs) == [n \in {"progress"} |-> cbs]

\* event_listeners of a new Context (line 12): the empty dict.
NoListeners == [n \in {} |-> <<>>]

\* No emit_event call in progress.
NotEmitting ==
    [active |-> FALSE, name |-> "", live |-> FALSE, pos |-> 0, invoked |-> <<>>, called |-> 0]

\* No request_stop of the caller recorded.
NoStop == [set |-> FALSE, data |-> [s \in {} |-> NoMetadata], i |-> 0, hooks |-> 0,
           pc |-> "idle"]

\* No first run recorded.
NoRun == [taken |-> FALSE, data |-> [s \in {} |-> NoMetadata], should_stop |-> FALSE,
          current_step_index |-> 0, received |-> <<>>]

\* WorkflowContext.__init__ and Workflow.__init__ with a step list of wfs,
\* then the subscriptions listeners; no run started yet.
InitState(wfs, listeners) ==
    /\ steps \in wfs
    /\ constructed = steps
    /\ data = [s \in {} |-> NoMetadata]
    /\ should_stop = FALSE
    /\ current_step_index = 0
    /\ objects = [key \in {} |-> Absent]
    /\ event_listeners = listeners
    /\ emitting = NotEmitting
    /\ handle = "none"
    /\ oplog = <<>>
    /\ atStop = NoStop
    /\ firstRun = NoRun
    /\ received = <<>>
    /\ pc = [t \in Threads |-> "idle"]
    /\ i = [t \in Threads |-> 0]
    /\ k = [t \in Threads |-> 0]
    /\ retries = [t \in Threads |-> 0]
    /\ metadata = [t \in Threads |-> NoMetadata]
    /\ retval = [t \in Threads |-> Absent]
    /\ resumed = FALSE
    /\ callCursor = [t \in Threads |-> 0]
    /\ attempts = [t \in Threads |-> 0]
    /\ failures = [t \in Threads |-> 0]
    /\ evlog = [t \in Threads |-> <<>>]
    /\ calls = [t \in Threads |-> <<>>]
    /\ startLog = [t \in Threads |-> <<>>]
    /\ nStarted = [s \in StepIdx |-> 0]
    /\ emitted = [s \in StepIdx |-> FALSE]
    /\ hooked = [s \in StepIdx |-> FALSE]
    /\ mainInvoked = [s \in StepIdx |-> FALSE]
    /\ lastExit = [s \in StepIdx |-> "none"]
    /\ extStop = FALSE

\* A workflow of arbitrary callables on a new Context to whose 'progress'
\* events one arbitrary listener is subscribed.
Init == InitState(Workflows, listeners_of(<<"any">>))

\* ------------------------------------------------------- WorkflowContext
\* store_step_result that rebinds data to a dict of the one record.
store_step_result_Rebind(d, step_id, md) ==
    [s \in {step_id} |-> md]

\* store_step_result that updates the record an id already has: a key that
\* only the old record holds (saved, written by update_metadata) stays.
store_step_result_Update(d, step_id, md) ==
    [s \in (DOMAIN d) \cup {step_id} |->
        IF s # step_id THEN d[s]
        ELSE IF s \in DOMAIN d /\ md.saved = Absent THEN [md EXCEPT !.saved = d[s].saved]
        ELSE md]

\* store_step_result that keeps the record an id already has.
store_step_result_KeepFirst(d, step_id, md) ==
    [s \in (DOMAIN d) \cup {step_id} |-> IF s \in DOMAIN d THEN d[s] ELSE md]

\* store_step_result: self.data[step_id] = metadata (unconditional overwrite).
store_step_result(d, step_id, md) ==
    [s \in (DOMAIN d) \cup {step_id} |-> IF s = step_id THEN md ELSE d[s]]

\* update_metadata that starts a new record at every call.
update_metadata_Replace(d, step_id, key, value) ==
    [s \in (DOMAIN d) \cup {step_id} |->
        IF s = step_id THEN [NoMetadata EXCEPT ![key] = value] ELSE d[s]]

\* update_metadata (lines 31-34): self.data[step_id] = {} when step_id is
\* not in self.data, then self.data[step_id][key] = value.
update_metadata(d, step_id, key, value) ==
    LET rec == IF step_id \in DOMAIN d THEN d[step_id] ELSE NoMetadata
    IN  [s \in (DOMAIN d) \cup {step_id} |->
            IF s = step_id THEN [rec EXCEPT ![key] = value] ELSE d[s]]

\* get_step_result (lines 28-29): self.data.get(step_id).
get_step_result(d, step_id) == IF step_id \in DOMAIN d THEN d[step_id] ELSE Absent

\* set_object that keeps the object a key already has.
set_object_Keep(objs, key, obj) ==
    [x \in (DOMAIN objs) \cup {key} |-> IF x \in DOMAIN objs THEN objs[x] ELSE obj]

\* set_object (lines 15-16): self.objects[key] = obj.
set_object(objs, key, obj) ==
    [x \in (DOMAIN objs) \cup {key} |-> IF x = key THEN obj ELSE objs[x]]

\* get_object (lines 18-19): self.objects.get(key), None for a missing key.
get_object(objs, key) == IF key \in DOMAIN objs THEN objs[key] ELSE Absent

\* remove_object (lines 21-23): del self.objects[key] if key is present.
remove_object(objs, key) ==
    IF key \in DOMAIN objs THEN [x \in (DOMAIN objs) \ {key} |-> objs[x]] ELSE objs

\* Line 40: self.event_listeners.get(event_name, []).
listeners_get(l, name) == IF name \in DOMAIN l THEN l[name] ELSE <<>>

\* on that puts the callback in front of the list.
on_Prepend(l, name, cb) ==
    [n \in (DOMAIN l) \cup {name} |->
        IF n = name THEN <<cb>> \o listeners_get(l, name) ELSE l[n]]

\* on (lines 36-37): self.event_listeners.setdefault(event_name, []).append(callback).
on(l, name, cb) ==
    [n \in (DOMAIN l) \cup {name} |->
        IF n = name THEN Append(listeners_get(l, name), cb) ELSE l[n]]

\* The callbacks subscribed to name.
subscribers(l, name) ==
    {listeners_get(l, name)[j] : j \in 1 .. Len(listeners_get(l, name))}

\* Whether a call of the callbacks cbs with a payload of the given status
\* leaves request_stop called: an arbitrary callback may call it, and
\* "stop_on_started" calls it for 'started'.
callback_stops(cbs, status) ==
    IF "stop_on_started" \in cbs /\ status = "started" THEN {TRUE}
    ELSE IF "any" \in cbs THEN BOOLEAN
    ELSE {FALSE}

\* What the n+1-th attempt of the main operation main in a Step.run does:
\* it returns, or raises an exception of one of the classes given.
main_outcomes(main, n) ==
    CASE main = "any" -> {"return"} \cup Raises
      [] main = "ok" -> {"return"}
      [] main = "fail_once" -> IF n = 0 THEN Raises ELSE {"return"}
      [] main = "fail_always" -> Raises

\* request_stop that toggles the flag.
request_stop_Toggle(flag) == ~flag

\* request_stop: self.should_stop = True.
request_stop(flag) == TRUE

\* emit_event("progress", {status, step_id}) by thread t for its current
\* step: every listener is called on t's own thread before emit returns; a
\* listener may call context.request_stop().
emit_event(t, status) ==
    /\ evlog' = [evlog EXCEPT ![t] = Append(@, status)]
    /\ emitted' = [emitted EXCEPT ![i[t]] = TRUE]
    /\ received' = IF "recorder" \in subscribers(event_listeners, "progress")
                   THEN Append(received, <<status, steps[i[t]].step_id>>)
                   ELSE received
    /\ \E stop \in callback_stops(subscribers(event_listeners, "progress"), status) :
          /\ should_stop' = IF stop THEN request_stop(should_stop) ELSE should_stop
          /\ extStop' = (extStop \/ stop)

\* What hook j of the list kind ("pre", "post") of step writes into the
\* metadata record md it is given.
hook_writes(step, kind, j, md) ==
    IF step.hook_kind \in {"mark", "autofocus", "faulty"}
    THEN [md EXCEPT !.marks = @ \cup {<<kind, j>>}]
    ELSE md

\* What a hook of step, given the record md, does to context.data.
hook_updates(step, md, d) ==
    IF step.hook_kind = "save_data"
    THEN update_metadata(d, md.step_id, "saved", True)
    ELSE d

\* A hook that is handed a copy of the record: what it writes is lost.
hook_metadata_Copy(md, written) == md

\* Lines 89, 119: "metadata": metadata.  The hook is handed the dict of the
\* step itself; written, the dict as the hook leaves it, is the step's
\* record from then on.
hook_metadata(md, written) == written

\* A hook f(**merged_params) is called with the live context: it may call
\* context.request_stop().
hook_call(t) ==
    /\ hooked' = [hooked EXCEPT ![i[t]] = TRUE]
    /\ \E stop \in callback_stops({IF steps[i[t]].hook_kind = "mark" THEN "any" ELSE "f"}, "") :
          /\ should_stop' = IF stop THEN request_stop(should_stop) ELSE should_stop
          /\ extStop' = (extStop \/ stop)

\* Step.run returns value to Workflow.run (line 145 -> 146) and its locals
\* are gone; how records the path it returned by.
step_return(t, how, value) ==
    /\ pc' = [pc EXCEPT ![t] = "wf_advance"]
    /\ retval' = [retval EXCEPT ![t] = value]
    /\ k' = [k EXCEPT ![t] = 0]
    /\ retries' = [retries EXCEPT ![t] = 0]
    /\ metadata' = [metadata EXCEPT ![t] = NoMetadata]
    /\ lastExit' = [lastExit EXCEPT ![i[t]] = how]

\* ---------------------------------------------------------- Workflow.run
\* Line 148: Workflow.run returns the context; its locals are gone.
run_return(t) ==
    /\ pc' = [pc EXCEPT ![t] = "returned"]
    /\ i' = [i EXCEPT ![t] = 0]
    /\ callCursor' = [callCursor EXCEPT ![t] = 0]
    /\ startLog' = [startLog EXCEPT ![t] = <<>>]

\* An exception that no handler caught leaves Step.run (line 99) and then
\* Workflow.run (line 145): the call of run ends without returning.
run_raise(t) ==
    /\ pc' = [pc EXCEPT ![t] = "raised"]
    /\ i' = [i EXCEPT ![t] = 0]
    /\ k' = [k EXCEPT ![t] = 0]
    /\ retries' = [retries EXCEPT ![t] = 0]
    /\ metadata' = [metadata EXCEPT ![t] = NoMetadata]
    /\ callCursor' = [callCursor EXCEPT ![t] = 0]
    /\ startLog' = [startLog EXCEPT ![t] = <<>>]

\* What a call of a hook of step does, the step having begun n times on
\* this Context: it returns, or, a faulty hook, raises.
hook_outcomes(step, n) ==
    IF step.hook_kind = "faulty" /\ n <= MaxRuns - 1
    THEN {"return", "raise"}
    ELSE {"return"}

\* A hook failure that the engine handles like a terminal failure of the
\* main operation: it sets the flag.
hook_raise_StopsRun(t, kind) ==
    /\ hooked' = [hooked EXCEPT ![i[t]] = TRUE]
    /\ calls' = [calls EXCEPT ![t] = Append(@, <<kind, k[t], metadata[t]>>)]
    /\ lastExit' = [lastExit EXCEPT ![i[t]] = "hook_raised"]
    /\ should_stop' = TRUE
    /\ run_raise(t)
    /\ UNCHANGED <<steps, apiVars, data, current_step_index, retval, resumed, attempts,
                   failures, evlog, nStarted, emitted, received, mainInvoked, extStop>>

\* Lines 89-90 and 119-120 stand in no try block: the exception a hook of
\* the list kind raises leaves Step.run and Workflow.run at once.  Nothing
\* is stored or emitted, the flag is left alone, and line 146 is not
\* reached.
hook_raise(t, kind) ==
    /\ hooked' = [hooked EXCEPT ![i[t]] = TRUE]
    /\ calls' = [calls EXCEPT ![t] = Append(@, <<kind, k[t], metadata[t]>>)]
    /\ lastExit' = [lastExit EXCEPT ![i[t]] = "hook_raised"]
    /\ should_stop' = should_stop
    /\ run_raise(t)
    /\ UNCHANGED <<steps, apiVars, data, current_step_index, retval, resumed, attempts,
                   failures, evlog, nStarted, emitted, received, mainInvoked, extStop>>

\* What emit_event does when it calls the listeners of l for a step that has
\* begun n times on this Context: every callback returns, or a faulty one
\* raises.
callback_outcomes(l, n) ==
    IF "faulty" \in subscribers(l, "progress") /\ n <= MaxRuns - 1
    THEN {"return", "raise"}
    ELSE {"return"}

\* The callbacks of the list cbs that line 41 calls before it calls the
\* first faulty one.
called_before(cbs) ==
    {cbs[j] : j \in {n \in 1 .. Len(cbs) : \A m \in 1 .. n : cbs[m] # "faulty"}}

\* A listener failure after which the cursor is moved past the step all
\* the same, as if line 146 stood in a finally clause.
emit_raise_Advances(t, status) ==
    /\ evlog' = [evlog EXCEPT ![t] = Append(@, status)]
    /\ emitted' = [emitted EXCEPT ![i[t]] = TRUE]
    /\ nStarted' = IF status = "started" THEN [nStarted EXCEPT ![i[t]] = @ + 1] ELSE nStarted
    /\ received' = IF "recorder" \in called_before(listeners_get(event_listeners, "progress"))
                   THEN Append(received, <<status, steps[i[t]].step_id>>)
                   ELSE received
    /\ \E stop \in callback_stops(called_before(listeners_get(event_listeners, "progress")),
                                  status) :
          /\ should_stop' = IF stop THEN request_stop(should_stop) ELSE should_stop
          /\ extStop' = (extStop \/ stop)
    /\ lastExit' = [lastExit EXCEPT ![i[t]] = "emit_raised"]
    /\ current_step_index' = i[t] + 1
    /\ run_raise(t)
    /\ UNCHANGED <<steps, apiVars, data, retval, resumed, attempts, failures, calls,
                   hooked, mainInvoked>>

\* Lines 39-41 stand in no try block, and neither do the calls of
\* emit_event in Step.run (83, 108, 113, 129): the exception a listener
\* raises for status leaves emit_event, Step.run and Workflow.run at once.
\* The listeners before it were called; what Step.run did before stays
\* done; line 146 is not reached.
emit_raise(t, status) ==
    /\ evlog' = [evlog EXCEPT ![t] = Append(@, status)]
    /\ emitted' = [emitted EXCEPT ![i[t]] = TRUE]
    /\ nStarted' = IF status = "started" THEN [nStarted EXCEPT ![i[t]] = @ + 1] ELSE nStarted
    /\ received' = IF "recorder" \in called_before(listeners_get(event_listeners, "progress"))
                   THEN Append(received, <<status, steps[i[t]].step_id>>)
                   ELSE received
    /\ \E stop \in callback_stops(called_before(listeners_get(event_listeners, "progress")),
                                  status) :
          /\ should_stop' = IF stop THEN request_stop(should_stop) ELSE should_stop
          /\ extStop' = (extStop \/ stop)
    /\ lastExit' = [lastExit EXCEPT ![i[t]] = "emit_raised"]
    /\ current_step_index' = current_step_index
    /\ run_raise(t)
    /\ UNCHANGED <<steps, apiVars, data, retval, resumed, attempts, failures, calls,
                   hooked, mainInvoked>>

\* A caller calls Workflow.run(context) on thread t (line 136), for the
\* first time or after an earlier call returned or raised; what is known of
\* a call that raised is dropped.
CallRun(t) ==
    /\ pc[t] \in {"idle", "returned", "raised"}
    /\ t = "background" => (handle = "background" /\ pc[t] = "idle")
    /\ resumed' = (resumed \/ \E u \in Threads : pc[u] # "idle")
    /\ pc' = [pc EXCEPT ![t] = "wf_range"]
    /\ callCursor' = [callCursor EXCEPT ![t] = current_step_index]
    /\ IF pc[t] = "raised"
       THEN /\ attempts' = [attempts EXCEPT ![t] = 0]
            /\ failures' = [failures EXCEPT ![t] = 0]
            /\ evlog' = [evlog EXCEPT ![t] = <<>>]
            /\ calls' = [calls EXCEPT ![t] = <<>>]
       ELSE UNCHANGED threadHist
    /\ UNCHANGED <<steps, apiVars, ctxVars, i, k, retries, retval, metadata, startLog,
                   stepHist, extStop>>

\* range_start of a loop that always begins at the first step.
range_start_FromZero(cursor) == 0

\* Line 141: range(context.current_step_index, len(self.steps)) is built
\* once; the loop variable starts at the cursor.
range_start(cursor) == cursor

WfRange(t) ==
    /\ pc[t] = "wf_range"
    /\ i' = [i EXCEPT ![t] = range_start(current_step_index)]
    /\ pc' = [pc EXCEPT ![t] = "wf_loop"]
    /\ UNCHANGED <<steps, apiVars, ctxVars, k, retries, retval, metadata, resumed, callCursor, startLog,
                   threadHist, stepHist, extStop>>

\* Line 141: the next element of the range, or the loop ends and run
\* returns the context (line 148).
WfLoop(t) ==
    /\ pc[t] = "wf_loop"
    /\ IF i[t] < nSteps
       THEN /\ pc' = [pc EXCEPT ![t] = "wf_check"]
            /\ UNCHANGED <<i, callCursor, startLog>>
       ELSE run_return(t)
    /\ UNCHANGED <<steps, apiVars, ctxVars, k, retries, retval, metadata, resumed,
                   threadHist, stepHist, extStop>>

\* WfCheck of a loop that does not look at should_stop.
WfCheck_Ignores(t) ==
    /\ pc[t] = "wf_check"
    /\ pc' = [pc EXCEPT ![t] = "step_entry"]
    /\ UNCHANGED <<steps, apiVars, ctxVars, i, callCursor, startLog, k, retries, retval, metadata,
                   resumed, threadHist, stepHist, extStop>>

\* Lines 143-145: break when should_stop, else call step.run(context).
WfCheck(t) ==
    /\ pc[t] = "wf_check"
    /\ IF should_stop
       THEN run_return(t)
       ELSE /\ pc' = [pc EXCEPT ![t] = "step_entry"]
            /\ UNCHANGED <<i, callCursor, startLog>>
    /\ UNCHANGED <<steps, apiVars, ctxVars, k, retries, retval, metadata, resumed,
                   threadHist, stepHist, extStop>>

\* next_cursor that jumps over the step after the one that returned.
next_cursor_Skips(idx) == idx + 2

\* next_cursor that marks the step itself, not its successor.
next_cursor_NoAdvance(idx) == idx

\* Line 146: context.current_step_index = i + 1, after step.run returned.
next_cursor(idx) == idx + 1

\* WfAdvance that moves the cursor only past a step that completed.
WfAdvance_OnSuccessOnly(t) ==
    /\ pc[t] = "wf_advance"
    /\ current_step_index' = IF lastExit[i[t]] = "completed"
                               THEN next_cursor(i[t])
                               ELSE current_step_index
    /\ i' = [i EXCEPT ![t] = @ + 1]
    /\ pc' = [pc EXCEPT ![t] = "wf_loop"]
    /\ attempts' = [attempts EXCEPT ![t] = 0]
    /\ failures' = [failures EXCEPT ![t] = 0]
    /\ evlog' = [evlog EXCEPT ![t] = <<>>]
    /\ calls' = [calls EXCEPT ![t] = <<>>]
    /\ retval' = [retval EXCEPT ![t] = Absent]
    /\ UNCHANGED <<steps, apiVars, data, should_stop, k, retries, metadata, resumed,
                   callCursor, startLog, stepHist, extStop>>

\* WfAdvance that never lowers the cursor: it keeps a value another run has
\* written when that value lies beyond its own step.
WfAdvance_Monotone(t) ==
    /\ pc[t] = "wf_advance"
    /\ current_step_index' = IF current_step_index > next_cursor(i[t])
                               THEN current_step_index
                               ELSE next_cursor(i[t])
    /\ i' = [i EXCEPT ![t] = @ + 1]
    /\ pc' = [pc EXCEPT ![t] = "wf_loop"]
    /\ attempts' = [attempts EXCEPT ![t] = 0]
    /\ failures' = [failures EXCEPT ![t] = 0]
    /\ evlog' = [evlog EXCEPT ![t] = <<>>]
    /\ calls' = [calls EXCEPT ![t] = <<>>]
    /\ retval' = [retval EXCEPT ![t] = Absent]
    /\ UNCHANGED <<steps, apiVars, data, should_stop, k, retries, metadata, resumed,
                   callCursor, startLog, stepHist, extStop>>

\* WfAdvance of a loop whose variable does not move on.
WfAdvance_Repeat(t) ==
    /\ pc[t] = "wf_advance"
    /\ current_step_index' = next_cursor(i[t])
    /\ pc' = [pc EXCEPT ![t] = "wf_loop"]
    /\ attempts' = [attempts EXCEPT ![t] = 0]
    /\ failures' = [failures EXCEPT ![t] = 0]
    /\ evlog' = [evlog EXCEPT ![t] = <<>>]
    /\ calls' = [calls EXCEPT ![t] = <<>>]
    /\ retval' = [retval EXCEPT ![t] = Absent]
    /\ UNCHANGED <<steps, apiVars, data, should_stop, i, k, retries, metadata, resumed,
                   callCursor, startLog, stepHist, extStop>>

\* Line 146, then the loop variable moves on (line 141).  The value that
\* step.run returned is discarded (line 145), and the history of that call
\* is dropped with it.
WfAdvance(t) ==
    /\ pc[t] = "wf_advance"
    /\ current_step_index' = next_cursor(i[t])
    /\ i' = [i EXCEPT ![t] = @ + 1]
    /\ pc' = [pc EXCEPT ![t] = "wf_loop"]
    /\ attempts' = [attempts EXCEPT ![t] = 0]
    /\ failures' = [failures EXCEPT ![t] = 0]
    /\ evlog' = [evlog EXCEPT ![t] = <<>>]
    /\ calls' = [calls EXCEPT ![t] = <<>>]
    /\ retval' = [retval EXCEPT ![t] = Absent]
    /\ UNCHANGED <<steps, apiVars, data, should_stop, k, retries, metadata, resumed,
                   callCursor, startLog, stepHist, extStop>>

\* ------------------------------------------------------ WorkflowStep.run
\* The step thread t is running: self of WorkflowStep.run.
self(t) == steps[i[t]]

\* stop_observed of a Step.run without the entry check.
stop_observed_Never(flag) == FALSE

\* Line 71: if context.should_stop.
stop_observed(flag) == flag

\* Lines 77-80: metadata = {"step_id": self.step_id, **self.main_params}.
initial_metadata(step) ==
    [key \in DOMAIN NoMetadata |->
        IF key \in DOMAIN step.main_params THEN step.main_params[key]
        ELSE IF key = "step_id" THEN step.step_id
        ELSE NoMetadata[key]]

\* Lines 71-80: return None when should_stop is set, else build metadata.
StepEntry(t) ==
    /\ pc[t] = "step_entry"
    /\ IF stop_observed(should_stop)
       THEN step_return(t, "entry_stop", Absent)
       ELSE /\ pc' = [pc EXCEPT ![t] = "emit_started"]
            /\ metadata' = [metadata EXCEPT ![t] = initial_metadata(self(t))]
            /\ UNCHANGED <<k, retries, retval, lastExit>>
    /\ UNCHANGED <<steps, apiVars, ctxVars, i, resumed, callCursor, startLog, threadHist,
                   nStarted, emitted, received, hooked, mainInvoked, extStop>>

\* EmitStarted of a Step.run that checks the flag again once 'started' has
\* been emitted.
EmitStarted_ChecksStop(t) ==
    /\ pc[t] = "emit_started"
    /\ emit_event(t, "started")
    /\ nStarted' = [nStarted EXCEPT ![i[t]] = @ + 1]
    /\ startLog' = [startLog EXCEPT ![t] = Append(@, i[t])]
    /\ IF should_stop'
       THEN /\ pc' = [pc EXCEPT ![t] = "wf_advance"]
            /\ metadata' = [metadata EXCEPT ![t] = NoMetadata]
            /\ lastExit' = [lastExit EXCEPT ![i[t]] = "pre_stop"]
       ELSE /\ pc' = [pc EXCEPT ![t] = "pre_loop"]
            /\ metadata' = [metadata EXCEPT ![t].pre_result = <<>>]
            /\ UNCHANGED lastExit
    /\ k' = [k EXCEPT ![t] = 0]
    /\ UNCHANGED <<steps, apiVars, data, current_step_index, i, retries, retval, resumed, callCursor,
                   attempts, calls, failures, hooked, mainInvoked>>

\* Lines 83-86: emit "started", then metadata["pre_result"] = [].
EmitStarted(t) ==
    /\ pc[t] = "emit_started"
    /\ \E outcome \in callback_outcomes(event_listeners, nStarted[i[t]]) :
          IF outcome = "raise"
          THEN emit_raise(t, "started")
          ELSE /\ emit_event(t, "started")
               /\ nStarted' = [nStarted EXCEPT ![i[t]] = @ + 1]
               /\ metadata' = [metadata EXCEPT ![t].pre_result = <<>>]
               /\ k' = [k EXCEPT ![t] = 0]
               /\ startLog' = [startLog EXCEPT ![t] = Append(@, i[t])]
               /\ pc' = [pc EXCEPT ![t] = "pre_loop"]
               /\ UNCHANGED <<steps, apiVars, data, current_step_index, i, retries, retval,
                              resumed, callCursor, attempts, calls, failures, hooked,
                              mainInvoked, lastExit>>

\* Lines 87-91: the next pre-hook is called with the record and the
\* context, and its result appended.
PreHook(t) ==
    /\ pc[t] = "pre_loop"
    /\ k[t] < self(t).pre_funcs
    /\ \E outcome \in hook_outcomes(self(t), nStarted[i[t]]) :
          IF outcome = "raise"
          THEN hook_raise(t, "pre")
          ELSE /\ hook_call(t)
               /\ metadata' = [metadata EXCEPT ![t] =
                                  LET md == hook_metadata(@, hook_writes(self(t), "pre", k[t], @))
                                  IN  [md EXCEPT !.pre_result = Append(@, k[t])]]
               /\ data' = hook_updates(self(t), metadata[t], data)
               /\ calls' = [calls EXCEPT ![t] = Append(@, <<"pre", k[t], metadata[t]>>)]
               /\ pc' = [pc EXCEPT ![t] = "pre_check"]
               /\ UNCHANGED <<steps, apiVars, current_step_index, i, k, retries, retval,
                              resumed, callCursor, startLog, attempts, failures, evlog,
                              nStarted, emitted, received, mainInvoked, lastExit>>

\* PreCheck of a pre-hook loop without the check of line 92.
PreCheck_Ignores(t) ==
    /\ pc[t] = "pre_check"
    /\ pc' = [pc EXCEPT ![t] = "pre_loop"]
    /\ k' = [k EXCEPT ![t] = @ + 1]
    /\ UNCHANGED <<steps, apiVars, ctxVars, i, retries, retval, metadata, resumed, callCursor,
                   startLog, threadHist, stepHist, extStop>>

\* Lines 92-93: after the pre-hook, return None when should_stop is set.
PreCheck(t) ==
    /\ pc[t] = "pre_check"
    /\ IF should_stop
       THEN step_return(t, "pre_stop", Absent)
       ELSE /\ pc' = [pc EXCEPT ![t] = "pre_loop"]
            /\ k' = [k EXCEPT ![t] = @ + 1]
            /\ UNCHANGED <<retries, retval, metadata, lastExit>>
    /\ UNCHANGED <<steps, apiVars, ctxVars, i, resumed, callCursor, startLog,
                   threadHist, nStarted, emitted, received, hooked, mainInvoked, extStop>>

\* retry_budget that counts the first attempt as a retry.
retry_budget_PlusOne(step) == step.max_retries + 1

\* Line 96: retries = self.max_retries.
retry_budget(step) == step.max_retries

\* PreDone of a Step.run that goes on to the main operation with pre-hooks
\* still to be called.
PreDone_Early(t) ==
    /\ pc[t] = "pre_loop"
    /\ retries' = [retries EXCEPT ![t] = retry_budget(self(t))]
    /\ pc' = [pc EXCEPT ![t] = "main_call"]
    /\ UNCHANGED <<steps, apiVars, ctxVars, i, k, metadata, retval, resumed, callCursor, startLog,
                   threadHist, stepHist, extStop>>

\* Lines 87, 96: pre_funcs is exhausted; the retry counter is initialised.
PreDone(t) ==
    /\ pc[t] = "pre_loop"
    /\ k[t] >= self(t).pre_funcs
    /\ retries' = [retries EXCEPT ![t] = retry_budget(self(t))]
    /\ pc' = [pc EXCEPT ![t] = "main_call"]
    /\ UNCHANGED <<steps, apiVars, ctxVars, i, k, metadata, retval, resumed, callCursor, startLog,
                   threadHist, stepHist, extStop>>

\* Line 99: self.main_func(**self.main_params): the keyword arguments of
\* every call are the step's main_params.
main_args(step) == step.main_params

\* A handler for a narrower class, which the exception does not belong to.
except_Exception_Narrow(cls) == FALSE

\* Line 102: except Exception as e.
except_Exception(cls) == cls = "Exception"

\* Lines 98-104: main_func(**main_params) returns (result recorded, break)
\* or raises; the handler of line 102 records error and traceback.  The
\* result of step s is s.
MainCall(t) ==
    /\ pc[t] = "main_call"
    /\ attempts' = [attempts EXCEPT ![t] = @ + 1]
    /\ calls' = [calls EXCEPT ![t] = Append(@, <<"main", attempts[t], should_stop,
                                                 main_args(self(t))>>)]
    /\ mainInvoked' = [mainInvoked EXCEPT ![i[t]] = TRUE]
    /\ \E outcome \in main_outcomes(self(t).main_func, attempts[t]) :
          IF outcome = "return"
          THEN /\ metadata' = [metadata EXCEPT ![t].result = i[t]]
               /\ pc' = [pc EXCEPT ![t] = "post_init"]
               /\ UNCHANGED <<failures, i, k, retries, callCursor, startLog>>
          ELSE /\ failures' = [failures EXCEPT ![t] = @ + 1]
               /\ IF except_Exception(outcome)
                  THEN /\ metadata' = [metadata EXCEPT ![t].error = ErrorText,
                                                       ![t].traceback = TracebackText]
                       /\ pc' = [pc EXCEPT ![t] = "main_except"]
                       /\ UNCHANGED <<i, k, retries, callCursor, startLog>>
                  ELSE run_raise(t)
    /\ UNCHANGED <<steps, apiVars, ctxVars, retval, resumed, evlog,
                   nStarted, emitted, received, hooked, lastExit, extStop>>

\* retries_left with the comparison off by one.
retries_left_OffByOne(r) == r >= 0

\* Line 105: if retries > 0.
retries_left(r) == r > 0

\* MainExcept of a retry loop that gives up when a stop was requested.
MainExcept_ChecksStop(t) ==
    /\ pc[t] = "main_except"
    /\ IF should_stop
       THEN step_return(t, "pre_stop", Absent)
       ELSE /\ IF retries_left(retries[t])
               THEN /\ retries' = [retries EXCEPT ![t] = @ - 1]
                    /\ pc' = [pc EXCEPT ![t] = "emit_retrying"]
               ELSE /\ UNCHANGED retries
                    /\ pc' = [pc EXCEPT ![t] = "fail_stop"]
            /\ UNCHANGED <<k, metadata, retval, lastExit>>
    /\ UNCHANGED <<steps, apiVars, ctxVars, i, resumed, callCursor, startLog,
                   threadHist, nStarted, emitted, received, hooked, mainInvoked, extStop>>

\* MainExcept of a retry loop that counts the step's own max_retries down.
MainExcept_SpendsBudget(t) ==
    /\ pc[t] = "main_except"
    /\ IF retries_left(retries[t])
       THEN /\ retries' = [retries EXCEPT ![t] = @ - 1]
            /\ steps' = [steps EXCEPT ![i[t]].max_retries = @ - 1]
            /\ pc' = [pc EXCEPT ![t] = "emit_retrying"]
       ELSE /\ UNCHANGED <<retries, steps>>
            /\ pc' = [pc EXCEPT ![t] = "fail_stop"]
    /\ UNCHANGED <<apiVars, ctxVars, i, k, metadata, retval, resumed, callCursor, startLog,
                   threadHist, stepHist, extStop>>

\* MainExcept of a retry loop that never counts its retries down.
MainExcept_KeepsBudget(t) ==
    /\ pc[t] = "main_except"
    /\ IF retries_left(retries[t])
       THEN /\ UNCHANGED retries
            /\ pc' = [pc EXCEPT ![t] = "emit_retrying"]
       ELSE /\ UNCHANGED retries
            /\ pc' = [pc EXCEPT ![t] = "fail_stop"]
    /\ UNCHANGED <<steps, apiVars, ctxVars, i, k, metadata, retval, resumed, callCursor, startLog,
                   threadHist, stepHist, extStop>>

\* Lines 105-106, 109: a retry remains (retries -= 1) or none does.
MainExcept(t) ==
    /\ pc[t] = "main_except"
    /\ IF retries_left(retries[t])
       THEN /\ retries' = [retries EXCEPT ![t] = @ - 1]
            /\ pc' = [pc EXCEPT ![t] = "emit_retrying"]
       ELSE /\ UNCHANGED retries
            /\ pc' = [pc EXCEPT ![t] = "fail_stop"]
    /\ UNCHANGED <<steps, apiVars, ctxVars, i, k, metadata, retval, resumed, callCursor, startLog,
                   threadHist, stepHist, extStop>>

\* Line 108: emit "retrying"; the while loop calls main_func again.
EmitRetrying(t) ==
    /\ pc[t] = "emit_retrying"
    /\ \E outcome \in callback_outcomes(event_listeners, nStarted[i[t]]) :
          IF outcome = "raise"
          THEN emit_raise(t, "retrying")
          ELSE /\ emit_event(t, "retrying")
               /\ pc' = [pc EXCEPT ![t] = "main_call"]
               /\ UNCHANGED <<steps, apiVars, data, current_step_index, i, k, retries, retval,
                              metadata, resumed, callCursor, startLog, attempts, calls,
                              failures, nStarted, hooked, mainInvoked, lastExit>>

\* FailStop of a failure branch that leaves the flag alone.
FailStop_NotSet(t) ==
    /\ pc[t] = "fail_stop"
    /\ pc' = [pc EXCEPT ![t] = "fail_store"]
    /\ UNCHANGED <<steps, apiVars, ctxVars, i, k, retries, retval, metadata, resumed,
                   callCursor, startLog, threadHist, stepHist, extStop>>

\* Line 111: context.should_stop = True.
FailStop(t) ==
    /\ pc[t] = "fail_stop"
    /\ should_stop' = TRUE
    /\ pc' = [pc EXCEPT ![t] = "fail_store"]
    /\ UNCHANGED <<steps, apiVars, data, current_step_index, i, k, retries, retval, metadata, resumed,
                   callCursor, startLog, threadHist, stepHist, extStop>>

\* Line 112: context.store_step_result(self.step_id, metadata).
FailStore(t) ==
    /\ pc[t] = "fail_store"
    /\ data' = store_step_result(data, self(t).step_id, metadata[t])
    /\ pc' = [pc EXCEPT ![t] = "fail_emit"]
    /\ UNCHANGED <<steps, apiVars, should_stop, current_step_index, i, k, retries, retval, metadata,
                   resumed, callCursor, startLog, threadHist, stepHist, extStop>>

\* FailEmit without the return of line 114: the step goes on to line 117.
FailEmit_NoReturn(t) ==
    /\ pc[t] = "fail_emit"
    /\ emit_event(t, "failed")
    /\ pc' = [pc EXCEPT ![t] = "post_init"]
    /\ UNCHANGED <<steps, apiVars, data, current_step_index, i, k, retries, retval, metadata, resumed,
                   callCursor, startLog, attempts, calls, failures, nStarted, hooked, mainInvoked, lastExit>>

\* Lines 113-114: emit "failed", return None.
FailEmit(t) ==
    /\ pc[t] = "fail_emit"
    /\ \E outcome \in callback_outcomes(event_listeners, nStarted[i[t]]) :
          IF outcome = "raise"
          THEN emit_raise(t, "failed")
          ELSE /\ emit_event(t, "failed")
               /\ step_return(t, "failed", Absent)
               /\ UNCHANGED <<steps, apiVars, data, current_step_index, i, resumed,
                              callCursor, startLog, attempts, calls, failures, nStarted,
                              hooked, mainInvoked>>

\* PostInit of a Step.run that checks the flag once the main operation has
\* succeeded.
PostInit_ChecksStop(t) ==
    /\ pc[t] = "post_init"
    /\ IF should_stop
       THEN /\ step_return(t, "post_stop", Absent)
            /\ UNCHANGED <<steps, apiVars, ctxVars, i, resumed, callCursor, startLog,
                           threadHist, nStarted, emitted, received, hooked, mainInvoked,
                           extStop>>
       ELSE /\ metadata' = [metadata EXCEPT ![t].post_result = <<>>]
            /\ k' = [k EXCEPT ![t] = 0]
            /\ pc' = [pc EXCEPT ![t] = "post_loop"]
            /\ UNCHANGED <<steps, apiVars, ctxVars, i, retries, retval, resumed, callCursor,
                           startLog, threadHist, stepHist, extStop>>

\* Line 117: metadata["post_result"] = [].
PostInit(t) ==
    /\ pc[t] = "post_init"
    /\ metadata' = [metadata EXCEPT ![t].post_result = <<>>]
    /\ k' = [k EXCEPT ![t] = 0]
    /\ pc' = [pc EXCEPT ![t] = "post_loop"]
    /\ UNCHANGED <<steps, apiVars, ctxVars, i, retries, retval, resumed, callCursor, startLog,
                   threadHist, stepHist, extStop>>

\* Lines 118-121: the next post-hook is called with the record and the
\* context, and its result appended.
PostHook(t) ==
    /\ pc[t] = "post_loop"
    /\ k[t] < self(t).post_funcs
    /\ \E outcome \in hook_outcomes(self(t), nStarted[i[t]]) :
          IF outcome = "raise"
          THEN hook_raise(t, "post")
          ELSE /\ hook_call(t)
               /\ metadata' = [metadata EXCEPT ![t] =
                                  LET md == hook_metadata(@, hook_writes(self(t), "post", k[t], @))
                                  IN  [md EXCEPT !.post_result = Append(@, k[t])]]
               /\ data' = hook_updates(self(t), metadata[t], data)
               /\ calls' = [calls EXCEPT ![t] = Append(@, <<"post", k[t], metadata[t]>>)]
               /\ pc' = [pc EXCEPT ![t] = "post_check"]
               /\ UNCHANGED <<steps, apiVars, current_step_index, i, k, retries, retval,
                              resumed, callCursor, startLog, attempts, failures, evlog,
                              nStarted, emitted, received, mainInvoked, lastExit>>

\* PostCheck that stores the record collected so far before it returns.
PostCheck_StoresFirst(t) ==
    /\ pc[t] = "post_check"
    /\ IF should_stop
       THEN /\ data' = store_step_result(data, self(t).step_id, metadata[t])
            /\ step_return(t, "post_stop", Absent)
       ELSE /\ pc' = [pc EXCEPT ![t] = "post_loop"]
            /\ k' = [k EXCEPT ![t] = @ + 1]
            /\ UNCHANGED <<data, retries, retval, metadata, lastExit>>
    /\ UNCHANGED <<steps, apiVars, should_stop, current_step_index, i, resumed, callCursor,
                   startLog, threadHist, nStarted, emitted, received, hooked, mainInvoked, extStop>>

\* Lines 122-123: after the post-hook, return None when should_stop is set.
PostCheck(t) ==
    /\ pc[t] = "post_check"
    /\ IF should_stop
       THEN step_return(t, "post_stop", Absent)
       ELSE /\ pc' = [pc EXCEPT ![t] = "post_loop"]
            /\ k' = [k EXCEPT ![t] = @ + 1]
            /\ UNCHANGED <<retries, retval, metadata, lastExit>>
    /\ UNCHANGED <<steps, apiVars, ctxVars, i, resumed, callCursor, startLog,
                   threadHist, nStarted, emitted, received, hooked, mainInvoked, extStop>>

\* StoreResult of a Step.run that announces completion before it stores.
StoreResult_Deferred(t) ==
    /\ pc[t] = "post_loop"
    /\ k[t] >= self(t).post_funcs
    /\ pc' = [pc EXCEPT ![t] = "emit_completed"]
    /\ UNCHANGED <<steps, apiVars, ctxVars, i, k, retries, retval, metadata,
                   resumed, callCursor, startLog, threadHist, stepHist, extStop>>

\* Lines 118, 126: post_funcs is exhausted; the record is stored.
StoreResult(t) ==
    /\ pc[t] = "post_loop"
    /\ k[t] >= self(t).post_funcs
    /\ data' = store_step_result(data, self(t).step_id, metadata[t])
    /\ pc' = [pc EXCEPT ![t] = "emit_completed"]
    /\ UNCHANGED <<steps, apiVars, should_stop, current_step_index, i, k, retries, retval, metadata,
                   resumed, callCursor, startLog, threadHist, stepHist, extStop>>

\* EmitCompleted of a Step.run that advances the cursor itself.
EmitCompleted_AdvancesCursor(t) ==
    /\ pc[t] = "emit_completed"
    /\ emit_event(t, "completed")
    /\ step_return(t, "completed", metadata[t].result)
    /\ current_step_index' = i[t] + 1
    /\ UNCHANGED <<steps, apiVars, data, i, resumed, callCursor, startLog,
                   attempts, calls, failures, nStarted, hooked, mainInvoked>>

\* Lines 129-130: emit "completed", return metadata["result"].
EmitCompleted(t) ==
    /\ pc[t] = "emit_completed"
    /\ \E outcome \in callback_outcomes(event_listeners, nStarted[i[t]]) :
          IF outcome = "raise"
          THEN emit_raise(t, "completed")
          ELSE /\ emit_event(t, "completed")
               /\ step_return(t, "completed", metadata[t].result)
               /\ UNCHANGED <<steps, apiVars, data, current_step_index, i, resumed,
                              callCursor, startLog, attempts, calls, failures, nStarted,
                              hooked, mainInvoked>>

\* ------------------------------------------------------------ environment
\* Another thread calls context.request_stop() (lines 43-44), at any time.
RequestStop ==
    /\ should_stop' = request_stop(should_stop)
    /\ extStop' = TRUE
    /\ UNCHANGED <<steps, apiVars, data, current_step_index, localVars, resumed, callCursor, startLog,
                   threadHist, stepHist>>

\* The caller resumes a stopped Context: with no run in progress it clears
\* should_stop and leaves current_step_index as it is.
ClearStop ==
    /\ \A t \in Threads : pc[t] \in {"idle", "returned", "raised"}
    /\ should_stop
    /\ should_stop' = FALSE
    /\ resumed' = TRUE
    /\ UNCHANGED <<steps, apiVars, data, current_step_index, localVars, callCursor, startLog,
                   threadHist, stepHist, extStop>>

\* One statement of Workflow.run / WorkflowStep.run on thread t.
RunStep(t) ==
    \/ CallRun(t) \/ WfRange(t) \/ WfLoop(t) \/ WfCheck(t) \/ WfAdvance(t)
    \/ StepEntry(t) \/ EmitStarted(t)
    \/ PreHook(t) \/ PreCheck(t) \/ PreDone(t)
    \/ MainCall(t) \/ MainExcept(t) \/ EmitRetrying(t)
    \/ FailStop(t) \/ FailStore(t) \/ FailEmit(t)
    \/ PostInit(t) \/ PostHook(t) \/ PostCheck(t)
    \/ StoreResult(t) \/ EmitCompleted(t)

\* One run at a time, on the caller's thread or handed to a background
\* thread; request_stop comes from any other thread.
Next == RunStep("caller") \/ RequestStop \/ ClearStop

Spec == Init /\ [][Next]_vars

\* ------------------------------------------- main_params as constructed
\* The main_params dicts a caller gives to WorkflowStep.__init__: a binding
\* of x or none, a max_retries or none.
RawParams ==
    UNION { [D -> 0 .. MaxExtras] : D \in SUBSET {"x", "max_retries"} }

\* The retry count a main_params dict asks for.
asked_retries(params) ==
    IF "max_retries" \in DOMAIN params THEN params["max_retries"] ELSE 0

\* The one-step workflows built from those dicts, with hooks of every shape
\* (the retry count is the one of the dict).
ParamWorkflows ==
    { [s \in 0 .. 0 |-> WorkflowStep_init(0, "any", params, sh.pre_funcs, sh.post_funcs, "mark")] :
        params \in RawParams,
        sh \in { x \in StepShapes : x.max_retries = 0 } }

InitParams ==
    InitState({ wf \in ParamWorkflows : Extras(wf[0]) <= MaxExtras }, listeners_of(<<"any">>))

SpecParams == InitParams /\ [][Next]_vars

\* ------------------------------------------------- shared identifiers
\* The two-step workflows whose steps both carry the identifier 0; the
\* binding of x is the position of the step.
DupWorkflows ==
    { [s \in 0 .. 1 |-> WorkflowStep_init(0, "any",
                                          [x |-> s, max_retries |-> shapes[s].max_retries],
                                          shapes[s].pre_funcs, shapes[s].post_funcs, "mark")] :
        shapes \in { x \in [0 .. 1 -> StepShapes] : Extras(x[0]) + Extras(x[1]) <= MaxExtras } }

InitDup == InitState(DupWorkflows, listeners_of(<<"any">>))

SpecDup == InitDup /\ [][Next]_vars

\* ------------------------------------------- hooks that write to data
\* The one-step workflows whose hooks are save_data hooks.
SaveDataWorkflows ==
    { [s \in 0 .. 0 |-> WorkflowStep_init(0, "any", [x |-> 0, max_retries |-> sh.max_retries],
                                          sh.pre_funcs, sh.post_funcs, "save_data")] :
        sh \in StepShapes }

InitSaveData == InitState(SaveDataWorkflows, listeners_of(<<"any">>))

SpecSaveData == InitSaveData /\ [][Next]_vars

\* -------------------------------------- main_params with a step_id key
\* The one-step workflows whose main_params bind x and, some of them, a
\* parameter named step_id, to the step's own identifier or to another
\* value.
KeyedWorkflows ==
    { [s \in 0 .. 0 |-> WorkflowStep_init(0, "any", params, sh.pre_funcs, sh.post_funcs, "mark")] :
        sh \in StepShapes,
        params \in { [x |-> 0, max_retries |-> r] : r \in 0 .. MaxExtras } \cup
                   { [x |-> 0, step_id |-> v, max_retries |-> r] :
                        v \in 0 .. MaxSteps, r \in 0 .. MaxExtras } }

InitKeyed ==
    InitState({ wf \in KeyedWorkflows : Extras(wf[0]) <= MaxExtras }, listeners_of(<<"any">>))

SpecKeyed == InitKeyed /\ [][Next]_vars

\* ----------------------------------- a listener that stops on 'started'
\* The workflows whose hooks only write their key and return, run on a
\* Context with one listener, which requests a stop whenever a step emits
\* 'started'; nothing else requests one.
QuietWorkflows ==
    { [s \in DOMAIN wf |-> WorkflowStep_init(wf[s].step_id, "any",
                                             [x |-> wf[s].step_id,
                                              max_retries |-> wf[s].max_retries],
                                             wf[s].pre_funcs, wf[s].post_funcs,
                                             "autofocus")] :
        wf \in Workflows }

InitStartStop == InitState(QuietWorkflows, listeners_of(<<"stop_on_started">>))

NextStartStop == RunStep("caller") \/ ClearStop

SpecStartStop == InitStartStop /\ [][NextStartStop]_vars

\* The workflows made of a first step of any shape, whose main
\* operation returns, raises once or raises always and whose hooks write
\* their key and return, followed by steps without hooks or retries whose
\* main operation returns.
LeadStepWorkflows ==
    { [s \in 0 .. (n - 1) |->
          IF s = 0
          THEN WorkflowStep_init(0, main, [x |-> 0, max_retries |-> sh.max_retries],
                                 sh.pre_funcs, sh.post_funcs, "autofocus")
          ELSE WorkflowStep_init(s, "ok", [x |-> s], 0, 0, "autofocus")] :
        n \in 1 .. MaxSteps, main \in MainFuncs \ {"any"}, sh \in StepShapes }

\* ------------------------------------------ hooks and listeners that raise
\* The workflows whose hooks may raise; the listener of their Context only
\* returns.  The caller may call run again after an exception, and may
\* clear the flag between runs.
FaultyHookWorkflows ==
    { [s \in DOMAIN wf |-> WorkflowStep_init(wf[s].step_id, "any",
                                             [x |-> wf[s].step_id,
                                              max_retries |-> wf[s].max_retries],
                                             wf[s].pre_funcs, wf[s].post_funcs,
                                             "faulty")] :
        wf \in Workflows }

InitHookRaise == InitState(FaultyHookWorkflows, listeners_of(<<"f">>))

NextFaulty == RunStep("caller") \/ ClearStop

SpecHookRaise == InitHookRaise /\ [][NextFaulty]_vars

\* Workflows whose hooks only write their key and return, run on a Context
\* whose listener may raise.
InitListenerRaise == InitState(LeadStepWorkflows, listeners_of(<<"faulty">>))

SpecListenerRaise == InitListenerRaise /\ [][NextFaulty]_vars

\* ------------------------------------------------ the same Workflow twice
\* The workflows of operations that behave the same in every run: main
\* operations that return, raise on the first attempt of a Step.run, or
\* raise always; hooks that write their key and return.
ScriptedWorkflows ==
    UNION { { [s \in 0 .. (n - 1) |->
                 WorkflowStep_init(s, mains[s], [x |-> s, max_retries |-> shapes[s].max_retries],
                                   shapes[s].pre_funcs, shapes[s].post_funcs, "autofocus")] :
                mains \in [0 .. (n - 1) -> MainFuncs \ {"any"}],
                shapes \in { x \in [0 .. (n - 1) -> StepShapes] :
                               SumOver([s \in 0 .. (n - 1) |-> Extras(x[s])],
                                       0 .. (n - 1)) <= MaxExtras } }
            : n \in 1 .. MaxSteps }

\* After a first run returned, the caller keeps its Context aside and makes
\* a new one, with the recorder subscribed to 'progress' as on the first.
FreshContext ==
    /\ pc["caller"] = "returned"
    /\ ~firstRun.taken
    /\ firstRun' = [taken |-> TRUE, data |-> data, should_stop |-> should_stop,
                    current_step_index |-> current_step_index, received |-> received]
    /\ data' = [s \in {} |-> NoMetadata]
    /\ should_stop' = FALSE
    /\ current_step_index' = 0
    /\ received' = <<>>
    /\ pc' = [pc EXCEPT !["caller"] = "idle"]
    /\ retval' = [retval EXCEPT !["caller"] = Absent]
    /\ attempts' = [attempts EXCEPT !["caller"] = 0]
    /\ failures' = [failures EXCEPT !["caller"] = 0]
    /\ evlog' = [evlog EXCEPT !["caller"] = <<>>]
    /\ calls' = [calls EXCEPT !["caller"] = <<>>]
    /\ nStarted' = [s \in StepIdx |-> 0]
    /\ emitted' = [s \in StepIdx |-> FALSE]
    /\ hooked' = [s \in StepIdx |-> FALSE]
    /\ mainInvoked' = [s \in StepIdx |-> FALSE]
    /\ lastExit' = [s \in StepIdx |-> "none"]
    /\ resumed' = FALSE
    /\ extStop' = FALSE
    /\ UNCHANGED <<steps, i, k, retries, metadata, callCursor, startLog, objects,
                   event_listeners, emitting, handle, oplog, atStop, constructed>>

InitRerun == InitState(ScriptedWorkflows, listeners_of(<<"recorder">>))

NextRerun == RunStep("caller") \/ FreshContext

SpecRerun == InitRerun /\ [][NextRerun]_vars

\* ------------------------------------------------------ run_in_background
\* The number of hook calls in the log of a Step.run.
hook_calls(log) == Cardinality({j \in 1 .. Len(log) : log[j][1] \in {"pre", "post"}})

\* Lines 152-154: a Thread with target self.run is created and started and
\* is returned to the caller; run itself begins when the thread is
\* scheduled (CallRun("background")).
RunInBackground ==
    /\ handle = "none"
    /\ handle' = "background"
    /\ UNCHANGED <<steps, ctxVars, localVars, resumed, callCursor, startLog, threadHist,
                   stepHist, extStop, objects, event_listeners, emitting, oplog, atStop,
                   firstRun, constructed>>

\* The caller, holding the Thread, calls context.request_stop() (lines
\* 43-44) before the background run has returned.
CallerStop ==
    /\ handle = "background"
    /\ pc["background"] # "returned"
    /\ ~atStop.set
    /\ should_stop' = request_stop(should_stop)
    /\ extStop' = TRUE
    /\ atStop' = [set |-> TRUE, data |-> data, i |-> i["background"],
                  hooks |-> hook_calls(calls["background"]),
                  pc |-> pc["background"]]
    /\ UNCHANGED <<steps, data, current_step_index, localVars, resumed, callCursor, startLog,
                   threadHist, stepHist, objects, event_listeners, emitting, handle, oplog,
                   firstRun, constructed>>

InitBackground == InitState(Workflows, listeners_of(<<"any">>))

NextBackground == RunInBackground \/ RunStep("background") \/ CallerStop

SpecBackground == InitBackground /\ [][NextBackground]_vars

\* ------------------------------------------- two runs on one Context
\* The caller starts a background run of the workflow (lines 150-154) and
\* calls run itself on the same Context (line 136): the statements of the
\* two runs interleave in any order.
InitConcurrent == InitState(LeadStepWorkflows, listeners_of(<<"f">>))

NextConcurrent == RunInBackground \/ RunStep("background") \/ RunStep("caller")

SpecConcurrent == InitConcurrent /\ [][NextConcurrent]_vars

\* ------------------------------------------------- the Context's own API
\* The keys and objects of the object store.
Keys == {"k1", "k2"}
Values == {"v1", "v2"}

\* A Workflow of no steps (Workflow([])).
EmptyWorkflow == [s \in {} |-> Absent]

\* What a call from outside a run leaves alone: the run state.
runVars == <<steps, ctxVars, localVars, resumed, callCursor, startLog, threadHist, stepHist,
             extStop, handle, atStop, firstRun, constructed>>

\* The entry of oplog for a call of op on key: obj the object given, result
\* the value returned, before and after the store.
object_op(op, key, obj, result, before, after) ==
    [op |-> op, key |-> key, value |-> obj, result |-> result,
     before |-> before, after |-> after]

\* context.set_object(key, obj).
SetObject ==
    /\ Len(oplog) < MaxOps
    /\ \E key \in Keys, obj \in Values :
          /\ objects' = set_object(objects, key, obj)
          /\ oplog' = Append(oplog, object_op("set_object", key, obj, Absent,
                                              objects, objects'))
    /\ UNCHANGED <<runVars, event_listeners, emitting>>

\* context.get_object(key).
GetObject ==
    /\ Len(oplog) < MaxOps
    /\ \E key \in Keys :
          oplog' = Append(oplog, object_op("get_object", key, Absent,
                                           get_object(objects, key), objects, objects))
    /\ UNCHANGED <<runVars, objects, event_listeners, emitting>>

\* context.remove_object(key).
RemoveObject ==
    /\ Len(oplog) < MaxOps
    /\ \E key \in Keys :
          /\ objects' = remove_object(objects, key)
          /\ oplog' = Append(oplog, object_op("remove_object", key, Absent, Absent,
                                              objects, objects'))
    /\ UNCHANGED <<runVars, event_listeners, emitting>>

\* The step ids, keys and values given to update_metadata and
\* get_step_result from outside a run.
StepIds == {0, 1}
MetaKeys == {"saved", "error"}
MetaValues == {True, ErrorText}

\* The entry of oplog for a call of op on step_id: key and value as given,
\* result the value returned, before and after context.data.
data_op(op, step_id, key, value, result, before, after) ==
    [op |-> op, step_id |-> step_id, key |-> key, value |-> value, result |-> result,
     before |-> before, after |-> after]

\* What a call on context.data leaves alone.
dataFrame == <<steps, should_stop, current_step_index, localVars, resumed, callCursor,
               startLog, threadHist, stepHist, extStop, objects, event_listeners,
               emitting, handle, atStop, firstRun, constructed>>

\* context.update_metadata(step_id, key, value).
UpdateMetadata ==
    /\ Len(oplog) < MaxOps
    /\ \E step_id \in StepIds, key \in MetaKeys, value \in MetaValues :
          /\ data' = update_metadata(data, step_id, key, value)
          /\ oplog' = Append(oplog, data_op("update_metadata", step_id, key, value,
                                            Absent, data, data'))
    /\ UNCHANGED dataFrame

\* context.get_step_result(step_id).
GetStepResult ==
    /\ Len(oplog) < MaxOps
    /\ \E step_id \in StepIds :
          oplog' = Append(oplog, data_op("get_step_result", step_id, Absent, Absent,
                                         get_step_result(data, step_id), data, data))
    /\ UNCHANGED <<dataFrame, data>>

\* A new Context whose results are written and read from outside a run.
InitData == InitState({EmptyWorkflow}, NoListeners)

NextData == UpdateMetadata \/ GetStepResult

SpecData == InitData /\ [][NextData]_vars

\* The entry of oplog for a call of on(name, cb) or of emit_event(name, ..):
\* invoked the callbacks the emit called, in order, called the number of
\* calls made before the emit was called.
listener_op(op, name, cb, invoked, called) ==
    [op |-> op, name |-> name, cb |-> cb, invoked |-> invoked, called |-> called]

\* context.on(name, cb), from any thread or from a callback: an emit may be
\* in progress.
On ==
    /\ Len(oplog) < MaxOps
    /\ \E name \in EventNames, cb \in {"f", "g"} :
          /\ event_listeners' = on(event_listeners, name, cb)
          /\ oplog' = Append(oplog, listener_op("on", name, cb, <<>>, 0))
    /\ UNCHANGED <<runVars, objects, emitting>>

\* The list an emit_event call iterates (line 40): the list of the name in
\* event_listeners when the name had one at the call, a new empty list
\* otherwise.
emit_list(e, l) == IF e.live THEN l[e.name] ELSE <<>>

\* context.emit_event(name, payload) is called: line 40 looks the list up.
EmitCall ==
    /\ ~emitting.active
    /\ Len(oplog) < MaxOps
    /\ \E name \in EventNames :
          emitting' = [active |-> TRUE, name |-> name,
                       live |-> name \in DOMAIN event_listeners,
                       pos |-> 0, invoked |-> <<>>, called |-> Len(oplog)]
    /\ UNCHANGED <<runVars, objects, event_listeners, oplog>>

\* Lines 40-41: the next callback of the list is called with the payload.
EmitInvoke ==
    /\ emitting.active
    /\ emitting.pos < Len(emit_list(emitting, event_listeners))
    /\ emitting' = [emitting EXCEPT
                       !.invoked = Append(@, emit_list(emitting, event_listeners)[emitting.pos + 1]),
                       !.pos = @ + 1]
    /\ UNCHANGED <<runVars, objects, event_listeners, oplog>>

\* Line 40: the list is exhausted; emit_event returns.
EmitReturn ==
    /\ emitting.active
    /\ emitting.pos >= Len(emit_list(emitting, event_listeners))
    /\ oplog' = Append(oplog, listener_op("emit_event", emitting.name, "",
                                          emitting.invoked, emitting.called))
    /\ emitting' = NotEmitting
    /\ UNCHANGED <<runVars, objects, event_listeners>>

\* A new Context on which callbacks are subscribed and events emitted.
InitEvents == InitState({EmptyWorkflow}, NoListeners)

NextEvents == On \/ EmitCall \/ EmitInvoke \/ EmitReturn

SpecEvents == InitEvents /\ [][NextEvents]_vars

\* A new Context whose object store is used.
InitObjects == InitState({EmptyWorkflow}, NoListeners)

NextObjects == SetObject \/ GetObject \/ RemoveObject

SpecObjects == InitObjects /\ [][NextObjects]_vars

\* ================================================================ claims
\* Thread t is inside WorkflowStep.run, or at line 146 right after it returned.
InStep(t) ==
    pc[t] \in {"step_entry", "emit_started", "pre_loop", "pre_check", "main_call",
               "main_except", "emit_retrying", "fail_stop", "fail_store",
               "fail_emit", "post_init", "post_loop", "post_check",
               "emit_completed", "wf_advance"}

\* Thread t is inside Workflow.run.
InRun(t) == pc[t] \notin {"idle", "returned", "raised"}

\* Thread t is at one of the statements that report a terminal failure
\* (lines 111-113), or Step.run has just returned through them.
ReportsFailure(t) ==
    \/ pc[t] \in {"fail_stop", "fail_store", "fail_emit"}
    \/ pc[t] = "wf_advance" /\ lastExit[i[t]] = "failed"

\* C1: a main operation that fails on every attempt is invoked exactly
\* max_retries + 1 times within one Step.run, and the failure is reported
\* (stop flag, stored record, 'failed') only after that many failed calls;
\* no Step.run ever makes more than max_retries + 1 calls.
C1_RetryCount ==
    \A t \in Threads :
        InStep(t) =>
            /\ attempts[t] <= self(t).max_retries + 1
            /\ ReportsFailure(t) =>
                  /\ attempts[t] = self(t).max_retries + 1
                  /\ failures[t] = attempts[t]

\* C1 witness: a step with a retry budget of 2 has reported failure after
\* three failed calls of its main operation.
C1_Witness ==
    \E t \in Threads :
        /\ pc[t] = "wf_advance"
        /\ lastExit[i[t]] = "failed"
        /\ self(t).max_retries = 2
        /\ attempts[t] = 3
        /\ failures[t] = 3
        /\ evlog[t] = <<"started", "retrying", "retrying", "failed">>

\* The first run on the fresh Context has returned and nobody has called
\* request_stop.
FirstRunReturned(t) == pc[t] = "returned" /\ ~resumed /\ ~extStop

\* Steps 0..kk-1 completed and step kk exhausted its retries.
FailedAt(kk) ==
    /\ lastExit[kk] = "failed"
    /\ \A s \in StepIdx : s < kk => lastExit[s] = "completed"

\* C2: unique step ids, fresh Context, no stop request: if steps 0..k-1
\* succeed and step k exhausts its retries then, when Workflow.run returns,
\* should_stop is true, data holds exactly the k+1 records of steps 0..k,
\* current_step_index is k+1, and no later step has emitted an event or had
\* a hook or its main operation invoked.
C2_StopAtFailedStep ==
    \A t \in Threads : \A kk \in StepIdx :
        (FirstRunReturned(t) /\ FailedAt(kk)) =>
            /\ should_stop
            /\ DOMAIN data = {steps[s].step_id : s \in 0 .. kk}
            /\ Cardinality(DOMAIN data) = kk + 1
            /\ \A s \in 0 .. (kk - 1) : data[steps[s].step_id].result = s
            /\ data[steps[kk].step_id].error = ErrorText
            /\ data[steps[kk].step_id].result = Absent
            /\ current_step_index = kk + 1
            /\ \A s \in StepIdx : s > kk =>
                  /\ nStarted[s] = 0
                  /\ ~emitted[s] /\ ~hooked[s] /\ ~mainInvoked[s]
                  /\ lastExit[s] = "none"

\* C2 witness: a two-step workflow whose first step failed terminally has
\* returned; the second step exists and was never begun.
C2_Witness ==
    \E t \in Threads :
        /\ FirstRunReturned(t)
        /\ nSteps = 2
        /\ FailedAt(0)
        /\ current_step_index = 1

\* C3: N steps with unique ids, fresh Context, no terminal failure and no
\* stop request: when Workflow.run returns, current_step_index = N and data
\* holds exactly N records, one per step id.
C3_AllStepsRun ==
    \A t \in Threads :
        (FirstRunReturned(t) /\ \A s \in StepIdx : lastExit[s] # "failed") =>
            /\ current_step_index = nSteps
            /\ DOMAIN data = {steps[s].step_id : s \in StepIdx}
            /\ Cardinality(DOMAIN data) = nSteps
            /\ \A s \in StepIdx : data[steps[s].step_id].step_id = steps[s].step_id

\* C3 witness: a two-step workflow ran to its end without failure or stop.
C3_Witness ==
    \E t \in Threads :
        /\ FirstRunReturned(t)
        /\ nSteps = 2
        /\ \A s \in StepIdx : lastExit[s] = "completed"
        /\ Cardinality(DOMAIN data) = 2

\* C4: a run called again on a stopped Context whose should_stop was cleared
\* and whose current_step_index was left alone starts its loop at that
\* index and moves through the steps in increasing order; no step below the
\* index the cursor had at the call is entered or started again.
C4_ResumeFromCursor ==
    [][\A t \in Threads :
          (resumed /\ InRun(t)) =>
             /\ (pc[t] = "wf_range" /\ pc'[t] # "wf_range") => i'[t] = callCursor[t]
             /\ (pc[t] # "wf_range" /\ InRun(t)') => i'[t] \in {i[t], i[t] + 1}
             /\ InStep(t)' => i'[t] >= callCursor[t]
             /\ \A s \in StepIdx :
                   s < callCursor[t] =>
                      /\ nStarted'[s] = nStarted[s]
                      /\ lastExit'[s] = lastExit[s]]_vars

\* C4 witness: the first run stopped after step 0, the flag was cleared, and
\* the second run is executing the main operation of step 1 without having
\* started step 0 again.
C4_Witness ==
    \E t \in Threads :
        /\ resumed
        /\ callCursor[t] = 1
        /\ pc[t] = "main_call"
        /\ i[t] = 1
        /\ nStarted[0] = 1
        /\ ~should_stop

\* C5: every step with index below current_step_index has been executed:
\* its main operation was invoked.
C5_CursorNextUnexecuted ==
    \A s \in StepIdx : s < current_step_index => mainInvoked[s]

\* C6: current_step_index is written only by line 146 of Workflow.run, on
\* the thread whose Step.run has returned, and becomes that step's index
\* plus one; it never changes while a pre-hook, a main-operation attempt or
\* a post-hook of a step is in progress.
C6_CursorWrittenAtStepBoundary ==
    [][current_step_index' # current_step_index =>
          \E t \in Threads :
             /\ pc[t] = "wf_advance"
             /\ pc'[t] = "wf_loop"
             /\ current_step_index' = i[t] + 1]_vars

\* C6 witness: the cursor was written after step 0 returned, and the run is
\* now inside step 1.
C6_Witness ==
    \E t \in Threads :
        /\ current_step_index = 1
        /\ pc[t] = "post_check"
        /\ i[t] = 1

\* C7: a Step.run entered with should_stop already true returns at once:
\* it emits no event, invokes no hook and no main operation, and leaves
\* data, the flag and the cursor as they were.
C7_EntryStopNoEffect ==
    [][\A t \in Threads :
          (pc[t] = "step_entry" /\ should_stop /\ pc'[t] # "step_entry") =>
             /\ pc'[t] = "wf_advance"
             /\ lastExit'[i[t]] = "entry_stop"
             /\ data' = data
             /\ should_stop' = should_stop
             /\ current_step_index' = current_step_index
             /\ evlog' = evlog
             /\ nStarted' = nStarted
             /\ emitted' = emitted
             /\ hooked' = hooked
             /\ mainInvoked' = mainInvoked]_vars

\* C7 witness: request_stop landed between line 143 and line 71, and the
\* Step.run so entered has returned.
C7_Witness ==
    \E t \in Threads :
        /\ pc[t] = "wf_advance"
        /\ lastExit[i[t]] = "entry_stop"
        /\ should_stop

\* C8: while a run is in progress, should_stop once true stays true: no
\* statement of Step.run or Workflow.run and no call of request_stop,
\* repeated or not, sets it back to false.
C8_StopMonotonic ==
    [][(should_stop /\ \E t \in Threads : InRun(t)) => should_stop']_vars

\* C8 witness: the flag is set while a step is between a pre-hook and the
\* check that follows it.
C8_Witness ==
    \E t \in Threads :
        /\ should_stop
        /\ pc[t] = "pre_check"

\* The statuses log[from..to] are all "retrying".
AllRetrying(log, from, to) == \A j \in from .. to : log[j] = "retrying"

\* started, retrying*, then exactly one of failed / completed.
CompleteForm(log) ==
    /\ Len(log) >= 2
    /\ log[1] = "started"
    /\ AllRetrying(log, 2, Len(log) - 1)
    /\ log[Len(log)] \in {"failed", "completed"}

\* started, retrying*, and no failed / completed.
OpenForm(log) ==
    /\ Len(log) >= 1
    /\ log[1] = "started"
    /\ AllRetrying(log, 2, Len(log))

\* C9 as stated: every Step.run that emitted 'started' has, when it returns,
\* emitted one 'started', then zero or more 'retrying', then exactly one of
\* 'failed' or 'completed', also when a stop was requested during the step.
C9_EventsEndWithTerminal ==
    \A t \in Threads :
        (pc[t] = "wf_advance" /\ evlog[t] # <<>>) => CompleteForm(evlog[t])

\* C9 amended: the progress events of one Step.run are one 'started', then
\* zero or more 'retrying', then at most one of 'failed' or 'completed',
\* which is the last event: exactly one ('failed' resp. 'completed') when
\* the step returns through terminal failure resp. normal completion, and
\* none when it returns early because should_stop was observed after a
\* pre-hook or a post-hook.
C9_EventOrder ==
    \A t \in Threads :
        /\ evlog[t] = <<>> \/ OpenForm(evlog[t]) \/ CompleteForm(evlog[t])
        /\ pc[t] = "wf_advance" =>
              /\ lastExit[i[t]] = "entry_stop" => evlog[t] = <<>>
              /\ lastExit[i[t]] \in {"pre_stop", "post_stop"} => OpenForm(evlog[t])
              /\ lastExit[i[t]] \in {"failed", "completed"} =>
                    /\ CompleteForm(evlog[t])
                    /\ evlog[t][Len(evlog[t])] = lastExit[i[t]]

\* C9 witness: a Step.run returned after the post-hook check observed the
\* stop flag; it retried once and emitted no terminal event.
C9_Witness ==
    \E t \in Threads :
        /\ pc[t] = "wf_advance"
        /\ lastExit[i[t]] = "post_stop"
        /\ evlog[t] = <<"started", "retrying">>

\* Number of 'retrying' events in log.
RetryingCount(log) == Cardinality({j \in 1 .. Len(log) : log[j] = "retrying"})

\* <<started, retrying x j, completed>>.
SuccessLog(j) == <<"started">> \o [x \in 1 .. j |-> "retrying"] \o <<"completed">>

\* C10: with no stop request, a step whose main operation fails j times
\* (0 <= j <= max_retries) and then succeeds emits exactly 'started', j times
\* 'retrying', 'completed' (j = 0: started, completed); 'retrying' is
\* emitted once per failed attempt that is followed by another attempt, and
\* never more than max_retries times.
C10_EventsOfSuccess ==
    \A t \in Threads :
        InStep(t) =>
            /\ RetryingCount(evlog[t]) <= self(t).max_retries
            /\ pc[t] = "main_call" =>
                  /\ attempts[t] = failures[t]
                  /\ RetryingCount(evlog[t]) = failures[t]
            /\ (pc[t] = "wf_advance" /\ ~should_stop) =>
                  /\ failures[t] <= self(t).max_retries
                  /\ attempts[t] = failures[t] + 1
                  /\ evlog[t] = SuccessLog(failures[t])

\* C10 witness: a step failed once, was retried and completed, with the
\* stop flag never set.
C10_Witness ==
    \E t \in Threads :
        /\ pc[t] = "wf_advance"
        /\ ~should_stop
        /\ ~extStop
        /\ failures[t] = 1
        /\ evlog[t] = <<"started", "retrying", "completed">>

HookCalls(log, kind) == {j \in 1 .. Len(log) : log[j][1] = kind}

\* C12: on terminal failure should_stop is set first, then the record with
\* error and traceback is stored under the step id, then 'failed' is
\* emitted: when the listeners are about to receive 'failed' the flag is
\* true and data holds the error; and no post-hook of the step is invoked,
\* before or after.
C12_FailureOrder ==
    /\ \A t \in Threads :
          /\ pc[t] = "fail_stop" =>
                /\ self(t).step_id \notin DOMAIN data
                /\ "failed" \notin {evlog[t][j] : j \in 1 .. Len(evlog[t])}
          /\ pc[t] = "fail_store" =>
                /\ should_stop
                /\ self(t).step_id \notin DOMAIN data
                /\ "failed" \notin {evlog[t][j] : j \in 1 .. Len(evlog[t])}
          /\ pc[t] = "fail_emit" =>
                /\ should_stop
                /\ self(t).step_id \in DOMAIN data
                /\ data[self(t).step_id].error = ErrorText
                /\ data[self(t).step_id].traceback = TracebackText
                /\ "failed" \notin {evlog[t][j] : j \in 1 .. Len(evlog[t])}
          /\ (pc[t] = "wf_advance" /\ lastExit[i[t]] = "failed") =>
                /\ should_stop
                /\ HookCalls(calls[t], "post") = {}
          /\ "failed" \in {evlog[t][j] : j \in 1 .. Len(evlog[t])} =>
                HookCalls(calls[t], "post") = {}
    /\ \A s \in StepIdx :
          (lastExit[s] = "failed" /\ steps[s].pre_funcs = 0) => ~hooked[s]

\* C12 witness: a step with a post-hook and no pre-hook has emitted 'failed'
\* and its run has returned; none of its hooks was ever invoked.
C12_Witness ==
    \E t \in Threads : \E s \in StepIdx :
        /\ pc[t] = "returned"
        /\ lastExit[s] = "failed"
        /\ steps[s].post_funcs >= 1
        /\ steps[s].pre_funcs = 0
        /\ ~hooked[s]
        /\ data[steps[s].step_id].error = ErrorText

\* The statements at which should_stop is read: line 143 and line 71
\* (before a step starts), line 92 (after a pre-hook), line 122 (after a
\* post-hook).
Checkpoints == {"wf_check", "step_entry", "pre_check", "post_check"}

\* Thread t takes a step of its own.
Moves(t) == pc'[t] # pc[t]

\* C13: a run gives way to the stop flag only at a checkpoint: Step.run
\* returns by a stop path, or the loop of Workflow.run breaks, only from a
\* checkpoint at which should_stop is true.  At every other statement the
\* thread goes where it goes without a stop: a hook that is due is called,
\* the main operation is called, and after a failed attempt with retries
\* left the retry is announced and made, whatever should_stop is.
C13_StopOnlyAtCheckpoints ==
    [][\A t \in Threads :
          Moves(t) =>
             /\ (\/ /\ pc'[t] = "wf_advance"
                    /\ lastExit'[i[t]] \in {"entry_stop", "pre_stop", "post_stop"}
                 \/ /\ pc'[t] = "returned"
                    /\ i[t] < nSteps)
                   => (pc[t] \in Checkpoints /\ should_stop)
             /\ pc[t] = "emit_started" => pc'[t] = "pre_loop"
             /\ pc[t] = "pre_loop" =>
                   IF k[t] < self(t).pre_funcs
                   THEN pc'[t] = "pre_check" /\ Len(calls'[t]) = Len(calls[t]) + 1
                   ELSE pc'[t] = "main_call"
             /\ pc[t] = "main_call" =>
                   /\ attempts'[t] = attempts[t] + 1
                   /\ pc'[t] \in {"main_except", "post_init"}
             /\ pc[t] = "main_except" =>
                   IF retries[t] > 0
                   THEN pc'[t] = "emit_retrying" /\ retries'[t] = retries[t] - 1
                   ELSE pc'[t] = "fail_stop"
             /\ pc[t] = "emit_retrying" => pc'[t] = "main_call"
             /\ pc[t] = "post_init" => pc'[t] = "post_loop"
             /\ pc[t] = "post_loop" =>
                   IF k[t] < self(t).post_funcs
                   THEN pc'[t] = "post_check" /\ Len(calls'[t]) = Len(calls[t]) + 1
                   ELSE pc'[t] = "emit_completed"
             /\ pc[t] = "emit_completed" =>
                   /\ pc'[t] = "wf_advance"
                   /\ lastExit'[i[t]] = "completed"]_vars

\* C13 witness: the first attempt of a main operation failed, stop was
\* requested before the second attempt, and the second attempt was made all
\* the same.
C13_Witness ==
    \E t \in Threads :
        /\ attempts[t] = 2
        /\ calls[t][Len(calls[t])][1] = "main"
        /\ calls[t][Len(calls[t])][2] = 1
        /\ calls[t][Len(calls[t])][3] = TRUE
        /\ pc[t] \in {"main_except", "post_init"}

\* Step.run returned because it observed should_stop (lines 72, 93, 123) or
\* set it itself (line 111).
StopExits == {"entry_stop", "pre_stop", "post_stop", "failed"}

\* C14: once should_stop is seen at a checkpoint nothing further starts in
\* that run.  The statement a thread executes at a checkpoint with
\* should_stop true leaves the step (or the loop) and calls no hook, no main
\* operation and no listener; after a Step.run that returned by a stop path
\* the flag is still set when the loop of Workflow.run comes to its check;
\* and in the first run on a Context no step after one that returned by a
\* stop path has emitted an event or had a hook or its main operation
\* invoked.
C14_NothingStartsAfterStop ==
    [][\A t \in Threads :
          /\ (Moves(t) /\ pc[t] \in Checkpoints /\ should_stop) =>
                /\ pc'[t] = IF pc[t] = "wf_check" THEN "returned" ELSE "wf_advance"
                /\ calls'[t] = calls[t]
                /\ evlog'[t] = evlog[t]
                /\ attempts'[t] = attempts[t]
                /\ <<nStarted, emitted, received, hooked, mainInvoked>>'
                      = <<nStarted, emitted, received, hooked, mainInvoked>>
          /\ (pc[t] = "wf_advance" /\ lastExit[i[t]] \in StopExits) => should_stop
          /\ (/\ pc[t] \in {"wf_loop", "wf_check"}
              /\ i[t] > callCursor[t]
              /\ lastExit[i[t] - 1] \in StopExits) => should_stop
          /\ ~resumed =>
                \A s \in StepIdx : \A s2 \in StepIdx :
                   (lastExit[s] \in StopExits /\ s2 > s) =>
                      /\ nStarted[s2] = 0
                      /\ ~emitted[s2] /\ ~hooked[s2] /\ ~mainInvoked[s2]]_vars

\* C14 witness: should_stop was seen after a pre-hook of step 0; the run
\* has returned without the main operation of step 0 and without anything
\* of step 1.
C14_Witness ==
    \E t \in Threads :
        /\ pc[t] = "returned"
        /\ ~resumed
        /\ nSteps = 2
        /\ steps[0].pre_funcs = 2
        /\ lastExit[0] = "pre_stop"
        /\ hooked[0]
        /\ ~mainInvoked[0]
        /\ ~emitted[1]

\* C15: within one call of Workflow.run the steps that start are, in
\* order, the step at the index current_step_index had at the call, then
\* the one after it, and so on: strictly increasing, none skipped, none
\* twice; a step that has emitted 'started' is the last of them.
C15_StartOrder ==
    \A t \in Threads :
        /\ \A j \in 1 .. Len(startLog[t]) : startLog[t][j] = callCursor[t] + j - 1
        /\ Len(startLog[t]) <= nSteps - callCursor[t]
        /\ (InStep(t) /\ evlog[t] # <<>>) =>
              /\ startLog[t] # <<>>
              /\ startLog[t][Len(startLog[t])] = i[t]

\* C15 witness: a run called with the cursor at 0 has started step 0 and
\* then step 1 of a two-step workflow, and step 1 is about to complete.
C15_Witness ==
    \E t \in Threads :
        /\ nSteps = 2
        /\ callCursor[t] = 0
        /\ startLog[t] = <<0, 1>>
        /\ nStarted[0] = 1
        /\ pc[t] = "emit_completed"

\* The statuses of log.
Statuses(log) == {log[j] : j \in 1 .. Len(log)}

\* C16: a Step.run that returns because should_stop was seen after a
\* pre-hook or a post-hook has stored nothing: data has no record of the
\* step and holds records of earlier steps only, also when the main
\* operation had succeeded; it has emitted neither 'completed' nor 'failed'
\* and returns absent.  A Step.run that returns by terminal failure has
\* stored its record.
C16_EarlyReturnStoresNothing ==
    /\ \A t \in Threads :
          /\ (pc[t] = "wf_advance" /\ lastExit[i[t]] \in {"pre_stop", "post_stop"}) =>
                /\ self(t).step_id \notin DOMAIN data
                /\ DOMAIN data \subseteq {steps[s].step_id : s \in 0 .. (i[t] - 1)}
                /\ Statuses(evlog[t]) \cap {"completed", "failed"} = {}
                /\ retval[t] = Absent
                /\ lastExit[i[t]] = "pre_stop" => attempts[t] = 0
                /\ lastExit[i[t]] = "post_stop" =>
                      /\ attempts[t] = failures[t] + 1
                      /\ calls[t][Len(calls[t])][1] = "post"
          /\ (pc[t] = "wf_advance" /\ lastExit[i[t]] = "failed") =>
                /\ self(t).step_id \in DOMAIN data
                /\ retval[t] = Absent
    /\ \A s \in StepIdx :
          lastExit[s] \in {"entry_stop", "pre_stop", "post_stop"} =>
             steps[s].step_id \notin DOMAIN data

\* C16 witness: the main operation of step 1 succeeded, should_stop was
\* seen after its post-hook, and Step.run has returned: data holds the
\* record of step 0 and none of step 1.
C16_Witness ==
    \E t \in Threads :
        /\ pc[t] = "wf_advance"
        /\ i[t] = 1
        /\ lastExit[1] = "post_stop"
        /\ attempts[t] = 1
        /\ failures[t] = 0
        /\ DOMAIN data = {steps[0].step_id}

\* What a list of n hooks leaves in pre_result / post_result: the value of
\* each hook, in the order of the list.
HookResults(n) == [j \in 1 .. n |-> j - 1]

\* C17: on normal completion the record is stored before 'completed' is
\* emitted: when the listeners are about to receive 'completed' for a
\* step, data holds under its id the main result, a pre_result with the
\* value of each pre-hook and a post_result with the value of each
\* post-hook, in list order; and Step.run then returns the main result.
C17_StoredBeforeCompleted ==
    \A t \in Threads :
        /\ pc[t] = "emit_completed" =>
              /\ "completed" \notin Statuses(evlog[t])
              /\ self(t).step_id \in DOMAIN data
              /\ data[self(t).step_id].step_id = self(t).step_id
              /\ data[self(t).step_id].result = i[t]
              /\ data[self(t).step_id].pre_result = HookResults(self(t).pre_funcs)
              /\ data[self(t).step_id].post_result = HookResults(self(t).post_funcs)
        /\ (pc[t] = "wf_advance" /\ lastExit[i[t]] = "completed") =>
              /\ evlog[t][Len(evlog[t])] = "completed"
              /\ retval[t] = i[t]
              /\ retval[t] = data[self(t).step_id].result

\* C17 witness: step 1, with a pre-hook and a post-hook, has stored its
\* record and is about to emit 'completed'.
C17_Witness ==
    \E t \in Threads :
        /\ pc[t] = "emit_completed"
        /\ i[t] = 1
        /\ self(t).pre_funcs = 1
        /\ self(t).post_funcs = 1
        /\ data[self(t).step_id].pre_result = <<0>>
        /\ data[self(t).step_id].post_result = <<0>>
        /\ data[self(t).step_id].result = 1

\* Step.run is being executed by thread t and has not returned.
Executing(t) == InStep(t) /\ pc[t] # "wf_advance"

\* C18: whenever Step.run returns at index i of the loop, by success,
\* terminal failure or a stop path, line 146 sets current_step_index to
\* i + 1: at the top of every iteration and throughout a Step.run the
\* cursor equals the loop index, and every step that returned lies below
\* it.  So a step is never executed again after it returned: a run on a
\* Context whose step failed terminally and whose flag was cleared goes on
\* with the step after the failed one.
C18_CursorPastReturnedStep ==
    /\ \A t \in Threads :
          /\ (InRun(t) /\ pc[t] # "wf_range") => current_step_index = i[t]
          /\ Executing(t) => lastExit[i[t]] = "none"
    /\ \A s \in StepIdx :
          /\ nStarted[s] <= 1
          /\ lastExit[s] # "none" =>
                \/ current_step_index > s
                \/ \E t \in Threads : pc[t] = "wf_advance" /\ i[t] = s

\* C18 witness: step 0 failed terminally, the flag was cleared, and the
\* next run is completing step 1 without having started step 0 again.
C18_Witness ==
    \E t \in Threads :
        /\ resumed
        /\ lastExit[0] = "failed"
        /\ nStarted[0] = 1
        /\ pc[t] = "emit_completed"
        /\ i[t] = 1
        /\ startLog[t] = <<1>>

\* Step s is reporting or has reported a terminal failure: its record was
\* stored by line 112.
FailedTerminally(s) ==
    \/ lastExit[s] = "failed"
    \/ \E t \in Threads : pc[t] = "fail_emit" /\ i[t] = s

\* C19: the record stored in data for a step holds error and traceback
\* only if that step failed terminally; the record of a step that failed on
\* some attempts and then succeeded holds neither.
C19_ErrorOnlyOnTerminalFailure ==
    \A s \in StepIdx :
        steps[s].step_id \in DOMAIN data =>
            /\ (\/ data[steps[s].step_id].error # Absent
                \/ data[steps[s].step_id].traceback # Absent) => FailedTerminally(s)
            /\ ~FailedTerminally(s) =>
                  /\ data[steps[s].step_id].error = Absent
                  /\ data[steps[s].step_id].traceback = Absent

\* Step s is completing or has completed: its record was stored by line 126.
Completed(s) ==
    \/ lastExit[s] = "completed"
    \/ \E t \in Threads : pc[t] = "emit_completed" /\ i[t] = s

CallCount(log, kind) == Cardinality({j \in 1 .. Len(log) : log[j][1] = kind})

\* C24: the calls of one Step.run are, in this order: pre-hooks 0, 1, ...
\* in list order, then the attempts 0, 1, ... of the main operation, then
\* post-hooks 0, 1, ... in list order.  The main operation is first called
\* only after every pre-hook was; a post-hook is called only after an
\* attempt succeeded (the last one); no hook is called twice.
C24_PhaseOrder ==
    \A t \in Threads :
        InStep(t) =>
            LET log == calls[t]
                P == CallCount(log, "pre")
                M == CallCount(log, "main")
                Q == CallCount(log, "post")
            IN  /\ Len(log) = P + M + Q
                /\ \A j \in 1 .. P : log[j][1] = "pre" /\ log[j][2] = j - 1
                /\ \A j \in (P + 1) .. (P + M) :
                      log[j][1] = "main" /\ log[j][2] = j - P - 1
                /\ \A j \in (P + M + 1) .. Len(log) :
                      log[j][1] = "post" /\ log[j][2] = j - P - M - 1
                /\ P <= self(t).pre_funcs
                /\ Q <= self(t).post_funcs
                /\ M = attempts[t]
                /\ M >= 1 => P = self(t).pre_funcs
                /\ Q >= 1 => failures[t] = attempts[t] - 1

\* C24 witness: a Step.run called its pre-hook, then its main operation,
\* then its post-hook.
C24_Witness ==
    \E t \in Threads :
        /\ pc[t] = "post_check"
        /\ Len(calls[t]) = 3
        /\ calls[t][1][1] = "pre"
        /\ calls[t][2][1] = "main"
        /\ calls[t][3][1] = "post"

\* The hook calls among the first n calls of log, as the keys they wrote.
MarksBefore(log, n) ==
    {<<log[m][1], log[m][2]>> : m \in {j \in 1 .. n : log[j][1] \in {"pre", "post"}}}

\* C25: the hooks of a Step.run and the engine write one and the same
\* metadata record.  The record each hook is given holds the step id and
\* what every hook called before it in this Step.run wrote; the record each
\* post-hook is given also holds the result of the main operation and the
\* pre_result list; and the record stored on completion holds what every
\* hook wrote, the result, and both result lists.
C25_SharedRecord ==
    \A t \in Threads :
        /\ InStep(t) =>
              \A j \in 1 .. Len(calls[t]) :
                 LET call == calls[t][j] IN
                 /\ call[1] \in {"pre", "post"} =>
                       /\ call[3].step_id = self(t).step_id
                       /\ call[3].marks = MarksBefore(calls[t], j - 1)
                 /\ call[1] = "post" =>
                       /\ call[3].result = i[t]
                       /\ call[3].pre_result = HookResults(self(t).pre_funcs)
                       /\ call[3].post_result = HookResults(call[2])
        /\ pc[t] = "emit_completed" =>
              /\ data[self(t).step_id].marks =
                    {<<"pre", j>> : j \in 0 .. (self(t).pre_funcs - 1)}
                       \cup {<<"post", j>> : j \in 0 .. (self(t).post_funcs - 1)}
              /\ data[self(t).step_id].marks = MarksBefore(calls[t], Len(calls[t]))
              /\ data[self(t).step_id].result = i[t]

\* C25 witness: a step with a pre-hook and a post-hook has stored its
\* record; the post-hook was given a record with the key of the pre-hook
\* and the result, and the stored record holds the keys of both hooks.
C25_Witness ==
    \E t \in Threads :
        /\ pc[t] = "emit_completed"
        /\ Len(calls[t]) = 3
        /\ calls[t][3][1] = "post"
        /\ calls[t][3][3].marks = {<<"pre", 0>>}
        /\ calls[t][3][3].result = i[t]
        /\ data[self(t).step_id].marks = {<<"pre", 0>>, <<"post", 0>>}

\* The positions before j of the calls in log that wrote key: set_object
\* and remove_object.
WritesBefore(log, j, key) ==
    {m \in 1 .. (j - 1) : log[m].key = key /\ log[m].op \in {"set_object", "remove_object"}}

\* The greatest element of a non-empty set of numbers.
Last(S) == CHOOSE m \in S : \A n \in S : n <= m

\* C21: object store round trip.  Every get_object(k) returns the object of
\* the last set_object(k, v) before it when no remove_object(k) came in
\* between, whatever was done to other keys, and absent otherwise; it
\* leaves the store as it was, and so does remove_object of a key that is
\* not present.
C21_ObjectStore ==
    \A j \in 1 .. Len(oplog) :
        LET call == oplog[j]
            W == WritesBefore(oplog, j, call.key)
        IN  /\ call.op = "get_object" =>
                  /\ call.result = IF W = {} \/ oplog[Last(W)].op = "remove_object"
                                   THEN Absent
                                   ELSE oplog[Last(W)].value
                  /\ call.after = call.before
            /\ (call.op = "remove_object" /\ call.key \notin DOMAIN call.before) =>
                  call.after = call.before
            /\ call.op = "remove_object" => call.key \notin DOMAIN call.after

\* C21 witness: k1 was set, the missing key k2 was removed, and get_object
\* returned the object of k1.
C21_Witness ==
    /\ Len(oplog) = 3
    /\ oplog[1].op = "set_object" /\ oplog[1].key = "k1" /\ oplog[1].value = "v1"
    /\ oplog[2].op = "remove_object" /\ oplog[2].key = "k2"
    /\ oplog[3].op = "get_object" /\ oplog[3].key = "k1" /\ oplog[3].result = "v1"

\* C28: update_metadata(step_id, key, value) leaves results with a record
\* for step_id in which key is value and every other key is what it was
\* (missing, when there was no record), and with every other record as it
\* was; get_step_result leaves results as they were and returns absent for
\* an id with no record.
C28_UpdateFrame ==
    \A j \in 1 .. Len(oplog) :
        LET call == oplog[j]
            old == IF call.step_id \in DOMAIN call.before
                   THEN call.before[call.step_id]
                   ELSE NoMetadata
        IN  /\ call.op = "update_metadata" =>
                  /\ DOMAIN call.after = (DOMAIN call.before) \cup {call.step_id}
                  /\ call.after[call.step_id][call.key] = call.value
                  /\ \A key \in (DOMAIN NoMetadata) \ {call.key} :
                        call.after[call.step_id][key] = old[key]
                  /\ \A s \in (DOMAIN call.before) \ {call.step_id} :
                        call.after[s] = call.before[s]
            /\ call.op = "get_step_result" =>
                  /\ call.after = call.before
                  /\ IF call.step_id \in DOMAIN call.before
                     THEN call.result = call.before[call.step_id]
                     ELSE call.result = Absent

\* C28 witness: a record was created for step 0 by setting one key, a
\* second key was set in it, and get_step_result of step 1 returned absent
\* and created nothing.
C28_Witness ==
    /\ Len(oplog) = 3
    /\ oplog[1].op = "update_metadata" /\ oplog[1].step_id = 0 /\ oplog[1].key = "saved"
    /\ oplog[2].op = "update_metadata" /\ oplog[2].step_id = 0 /\ oplog[2].key = "error"
    /\ oplog[2].after[0].saved = oplog[1].value
    /\ oplog[3].op = "get_step_result" /\ oplog[3].step_id = 1
    /\ oplog[3].result = Absent
    /\ DOMAIN data = {0}

\* The callbacks that the first n calls of log subscribed to name, in the
\* order of the calls.
Subscribed(log, n, name) ==
    LET sel == SelectSeq(SubSeq(log, 1, n), LAMBDA e : e.op = "on" /\ e.name = name)
    IN  [m \in 1 .. Len(sel) |-> sel[m].cb]

\* Sequence p is a prefix of sequence q.
IsPrefix(p, q) == Len(p) <= Len(q) /\ SubSeq(q, 1, Len(p)) = p

\* C22: when emit_event(name, ..) returns it has called, once for each
\* subscription and in the order of subscription, every callback that was
\* subscribed to name when it was called, and beyond those only callbacks
\* subscribed to name while it ran; it has called nothing when name had no
\* subscriber.  While it runs it has called a prefix of them.
C22_EmitOrder ==
    /\ \A j \in 1 .. Len(oplog) :
          oplog[j].op = "emit_event" =>
             /\ IsPrefix(Subscribed(oplog, oplog[j].called, oplog[j].name), oplog[j].invoked)
             /\ IsPrefix(oplog[j].invoked, Subscribed(oplog, j - 1, oplog[j].name))
             /\ Subscribed(oplog, oplog[j].called, oplog[j].name) = <<>>
                   => oplog[j].invoked = <<>>
    /\ emitting.active =>
          IsPrefix(emitting.invoked, Subscribed(oplog, Len(oplog), emitting.name))

\* C22 witness: g and then f were subscribed to 'progress', and an emit of
\* 'progress' called g and then f.
C22_Witness ==
    /\ Len(oplog) = 3
    /\ oplog[1].op = "on" /\ oplog[1].name = "progress" /\ oplog[1].cb = "g"
    /\ oplog[2].op = "on" /\ oplog[2].name = "progress" /\ oplog[2].cb = "f"
    /\ oplog[3].op = "emit_event" /\ oplog[3].name = "progress"
    /\ oplog[3].invoked = <<"g", "f">>

\* C26: WorkflowStep.__init__ takes max_retries out of the bindings, 0
\* when the dict has none, and leaves the other bindings as given; every
\* call of the main operation in a Step.run is given those bindings, the
\* same at every attempt, with no max_retries, context or metadata among
\* them; and a step whose retry count is 0 that fails has invoked its main
\* operation once and emitted no 'retrying'.
C26_MainBindings ==
    /\ \A params \in RawParams :
          LET step == WorkflowStep_init(0, "any", params, 0, 0, "mark") IN
          /\ step.main_params = [key \in (DOMAIN params) \ {"max_retries"} |-> params[key]]
          /\ step.max_retries = asked_retries(params)
    /\ \A t \in Threads :
          InStep(t) =>
             /\ \A j \in 1 .. Len(calls[t]) :
                   calls[t][j][1] = "main" =>
                      /\ calls[t][j][4] = constructed[i[t]].main_params
                      /\ (DOMAIN calls[t][j][4]) \cap {"max_retries", "context", "metadata"} = {}
             /\ (self(t).max_retries = 0 /\ failures[t] >= 1) =>
                   /\ attempts[t] = 1
                   /\ "retrying" \notin Statuses(evlog[t])
                   /\ pc[t] \in {"main_except", "fail_stop", "fail_store", "fail_emit",
                                  "wf_advance"}

\* C26 witness: a step built from a dict with a binding of x and no
\* max_retries has failed: its main operation was called once, with the
\* binding of x alone, and the step is about to emit 'failed'.
C26_Witness ==
    \E t \in Threads :
        /\ pc[t] = "fail_emit"
        /\ self(t).max_retries = 0
        /\ DOMAIN self(t).main_params = {"x"}
        /\ attempts[t] = 1
        /\ evlog[t] = <<"started">>
        /\ calls[t][Len(calls[t])][1] = "main"
        /\ DOMAIN calls[t][Len(calls[t])][4] = {"x"}

\* The keys the hooks of step write into its record when all of them run.
AllMarks(step) ==
    {<<"pre", j>> : j \in 0 .. (step.pre_funcs - 1)}
        \cup {<<"post", j>> : j \in 0 .. (step.post_funcs - 1)}

\* C29: two steps share the identifier 0.  data never holds an entry under
\* another id; when the second step stores its record, data[0] is that
\* record and nothing else: its binding of x, its result, the keys of its
\* own hooks only, and an error only if the second step itself failed; and
\* it stays so once the second step has completed or failed.
C29_LastWriteWins ==
    /\ DOMAIN data \subseteq {0}
    /\ \A t \in Threads :
          (pc[t] \in {"emit_completed", "fail_emit"} /\ i[t] = 1) =>
             /\ DOMAIN data = {0}
             /\ data[0] = metadata[t]
             /\ data[0].x = 1
             /\ data[0].marks \subseteq AllMarks(steps[1])
             /\ failures[t] = 0 => (data[0].error = Absent /\ data[0].traceback = Absent)
             /\ pc[t] = "emit_completed" =>
                   (data[0].result = 1 /\ data[0].marks = AllMarks(steps[1]))
    /\ lastExit[1] \in {"completed", "failed"} =>
          /\ data[0].x = 1
          /\ data[0].marks \subseteq AllMarks(steps[1])
          /\ lastExit[1] = "completed" =>
                (data[0].result = 1 /\ data[0].marks = AllMarks(steps[1]))

\* C29 witness: the first step, which has a pre-hook, and the second, which
\* has none, have both completed; data holds the record of the second,
\* without the key of the first step's hook.
C29_Witness ==
    /\ steps[0].step_id = steps[1].step_id
    /\ steps[0].pre_funcs = 1 /\ steps[1].pre_funcs = 0
    /\ lastExit[0] = "completed" /\ lastExit[1] = "completed"
    /\ DOMAIN data = {0}
    /\ data[0].x = 1 /\ data[0].result = 1 /\ data[0].marks = {}

\* C30: the hooks of the step are save_data hooks.  Right after a hook
\* returned, data holds under the step's id a record whose saved key is
\* True; when the step stores its record, on completion or on terminal
\* failure, data[step_id] is the step's own metadata record, which has no
\* saved key, and it stays so after the step returned.
C30_HookUpdateLost ==
    /\ \A t \in Threads :
          /\ pc[t] \in {"pre_check", "post_check"} =>
                /\ self(t).step_id \in DOMAIN data
                /\ data[self(t).step_id].saved = True
          /\ pc[t] \in {"emit_completed", "fail_emit"} =>
                /\ data[self(t).step_id] = metadata[t]
                /\ data[self(t).step_id].saved = Absent
    /\ \A s \in StepIdx :
          lastExit[s] \in {"completed", "failed"} => data[steps[s].step_id].saved = Absent

\* C30 witness: a step with one save_data post-hook has completed; the
\* hook was called, and the record stored has no saved key.
C30_Witness ==
    \E t \in Threads :
        /\ pc[t] = "emit_completed"
        /\ self(t).hook_kind = "save_data"
        /\ self(t).post_funcs = 1
        /\ calls[t][Len(calls[t])][1] = "post"
        /\ data[self(t).step_id].saved = Absent
        /\ data[self(t).step_id].post_result = <<0>>

\* C27: running changes neither the step list nor a step: steps is what
\* was constructed, and every Step.run makes its first call of the main
\* operation with retries = max_retries as constructed.  So when the same
\* Workflow, with operations that behave the same, has run on a second new
\* Context, the events received, the stop flag, the cursor and the results
\* are those of the first run.
C27_RunsLeaveWorkflowAlone ==
    /\ steps = constructed
    /\ \A t \in Threads :
          (pc[t] = "main_call" /\ attempts[t] = 0) => retries[t] = constructed[i[t]].max_retries
    /\ (firstRun.taken /\ pc["caller"] = "returned") =>
          /\ received = firstRun.received
          /\ should_stop = firstRun.should_stop
          /\ current_step_index = firstRun.current_step_index
          /\ DOMAIN data = DOMAIN firstRun.data
          /\ data = firstRun.data

\* C27 witness: a workflow whose first step fails once and is retried, and
\* whose second step fails for good, has run on two Contexts; the second
\* run has returned with the events, flag, cursor and results of the first.
C27_Witness ==
    /\ firstRun.taken
    /\ pc["caller"] = "returned"
    /\ nSteps = 2
    /\ steps[0].main_func = "fail_once" /\ steps[0].max_retries = 1
    /\ steps[1].main_func = "fail_always"
    /\ received = <<<<"started", 0>>, <<"retrying", 0>>, <<"completed", 0>>,
                    <<"started", 1>>, <<"failed", 1>>>>
    /\ firstRun.received = received
    /\ should_stop /\ firstRun.should_stop
    /\ current_step_index = 2 /\ firstRun.current_step_index = 2
    /\ DOMAIN data = {0, 1}

\* C23: the run that run_in_background starts executes on the background
\* thread only, the caller's thread executing none of its statements.
\* Once the caller has called request_stop, the run goes no further than
\* its next checkpoint: no step after the one in progress at the call gets
\* an event, a hook call or a main call, the step in progress calls at most
\* one more hook, and the run returns with the cursor at most one past the
\* step in progress; every record that data held at the call is still the
\* same, and current_step_index is at most the number of steps.
C23_BackgroundStop ==
    /\ pc["caller"] = "idle"
    /\ InRun("background") => handle = "background"
    /\ current_step_index <= nSteps
    /\ atStop.set =>
          /\ should_stop
          /\ \A id \in DOMAIN atStop.data :
                id \in DOMAIN data /\ data[id] = atStop.data[id]
          /\ \A s \in StepIdx :
                s > atStop.i => (~emitted[s] /\ ~hooked[s] /\ ~mainInvoked[s])
          /\ (InStep("background") /\ i["background"] = atStop.i) =>
                hook_calls(calls["background"]) <= atStop.hooks + 1
          /\ InRun("background") => i["background"] <= atStop.i + 1
          /\ pc["background"] = "returned" => current_step_index <= atStop.i + 1

\* C23 witness: the caller, holding the Thread, called request_stop while
\* the first of two steps was in progress on the background thread, its
\* pre-hook already called; the step completed, and the run has returned
\* with the record of the first step stored, the cursor at 1, and the
\* second step untouched.
C23_Witness ==
    /\ handle = "background"
    /\ pc["caller"] = "idle"
    /\ pc["background"] = "returned"
    /\ nSteps = 2
    /\ atStop.set /\ atStop.i = 0 /\ atStop.hooks = 1
    /\ lastExit[0] = "completed"
    /\ 0 \in DOMAIN data
    /\ current_step_index = 1
    /\ ~emitted[1] /\ ~mainInvoked[1]

\* C38: during a run current_step_index never decreases, every write
\* raises it by exactly 1, and it stays in 0 .. N, N the number of steps; a
\* run that ends because should_stop was seen at the check of line 143
\* before step i leaves current_step_index equal to i.
C38_CursorMonotone ==
    [][/\ current_step_index' \in {current_step_index, current_step_index + 1}
       /\ current_step_index' \in 0 .. nSteps
       /\ \A t \in Threads :
             /\ InRun(t) => callCursor[t] <= current_step_index
             /\ (pc[t] = "wf_check" /\ pc'[t] = "returned") =>
                   /\ should_stop
                   /\ current_step_index' = i[t]]_vars

\* C38 witness: the run of a two-step workflow has ended at the check
\* before step 1, which never began; step 0 completed and the cursor, written
\* once, is 1.
C38_Witness ==
    /\ pc["caller"] = "returned"
    /\ nSteps = 2
    /\ should_stop
    /\ ~resumed
    /\ lastExit[0] = "completed"
    /\ lastExit[1] = "none"
    /\ current_step_index = 1

\* The statements a Step.run with q post-hooks still has to execute, at
\* most, from a call of main_func with r retries left: the attempt, and
\* then either the post-hook phase or the except clause.
MainCost(r, q) == 3 * r + 2 * q + 10

\* The statements Workflow.run executes, at most, for the step at index s:
\* the checks of lines 143 and 71, 'started', two per pre-hook, the retry
\* loop, two per post-hook, the store, the final event and line 146.
StepCost(s) ==
    2 * steps[s].pre_funcs + 6
        + MainCost(retry_budget(steps[s]), steps[s].post_funcs)

\* The cost of the steps at the indices from s on.
CostFrom(s) == SumOver([x \in StepIdx |-> StepCost(x)], {x \in StepIdx : x >= s})

\* The statements the iteration of thread t still has to execute, at most,
\* until the loop variable moves on.
StepRank(t) ==
    LET P == self(t).pre_funcs
        Q == self(t).post_funcs
        R == retry_budget(self(t))
    IN  CASE pc[t] = "wf_loop"        -> 2 * P + 5 + MainCost(R, Q)
          [] pc[t] = "wf_check"       -> 2 * P + 4 + MainCost(R, Q)
          [] pc[t] = "step_entry"     -> 2 * P + 3 + MainCost(R, Q)
          [] pc[t] = "emit_started"   -> 2 * P + 2 + MainCost(R, Q)
          [] pc[t] = "pre_loop"       -> 2 * (P - k[t]) + 1 + MainCost(R, Q)
          [] pc[t] = "pre_check"      -> 2 * (P - k[t]) + MainCost(R, Q)
          [] pc[t] = "main_call"      -> MainCost(retries[t], Q)
          [] pc[t] = "main_except"    -> MainCost(retries[t], Q) - 1
          [] pc[t] = "emit_retrying"  -> MainCost(retries[t], Q) + 1
          [] pc[t] = "fail_stop"      -> 4
          [] pc[t] = "fail_store"     -> 3
          [] pc[t] = "fail_emit"      -> 2
          [] pc[t] = "post_init"      -> 2 * Q + 4
          [] pc[t] = "post_loop"      -> 2 * (Q - k[t]) + 3
          [] pc[t] = "post_check"     -> 2 * (Q - k[t]) + 2
          [] pc[t] = "emit_completed" -> 2
          [] pc[t] = "wf_advance"     -> 1
          [] OTHER                    -> 0

\* The statements the run of thread t still has to execute, at most, until
\* Workflow.run returns: a natural number.
Rank(t) ==
    CASE pc[t] \in {"idle", "returned", "raised"} -> 0
      [] pc[t] = "wf_range" -> CostFrom(range_start(callCursor[t])) + 2
      [] i[t] >= nSteps     -> 1
      [] OTHER              -> CostFrom(i[t] + 1) + StepRank(t) + 1

\* C37: Workflow.run terminates when every callable it invokes returns: a
\* run in progress can always execute its next statement, whatever the
\* stop flag holds; every statement it executes lowers Rank, a natural
\* number that is 0 only when the run has returned; a step makes at most
\* max_retries + 1 attempts of its main operation, and the loop index only
\* moves up, by one, never beyond the number of steps.
C37_RunTerminates ==
    [][\A t \in Threads :
          /\ InRun(t) => (ENABLED RunStep(t)) /\ Rank(t) > 0
          /\ (InRun(t) /\ pc'[t] # pc[t]) =>
                /\ Rank(t)' < Rank(t)
                /\ Rank(t)' >= 0
                /\ (pc[t] # "wf_range" /\ pc'[t] # "returned") =>
                      i'[t] \in {i[t], i[t] + 1}
                /\ i'[t] <= nSteps
                /\ InStep(t) => attempts'[t] <= self(t).max_retries + 1
          /\ (InRun(t) /\ pc'[t] = pc[t]) => Rank(t)' = Rank(t)]_vars

\* C37 witness: the run of a two-step workflow has returned although no
\* stop was ever requested: its first step, with a pre-hook and one retry,
\* completed, its second failed terminally, and the cursor is 2.
C37_Witness ==
    /\ pc["caller"] = "returned"
    /\ nSteps = 2
    /\ ~resumed
    /\ ~extStop
    /\ steps[0].max_retries = 1 /\ steps[0].pre_funcs = 1
    /\ lastExit[0] = "completed" /\ lastExit[1] = "failed"
    /\ current_step_index = 2

\* C33: a stop requested by a listener while it handles 'started' is not
\* observed before work begins.  From 'started' on the flag is set; a step
\* with pre-hooks still has its first pre-hook called, and only that one,
\* before line 92 returns; a step without pre-hooks still has its main
\* operation called, and retried until it succeeds or max_retries + 1
\* attempts have failed; the stop is seen by the first check after that.
C33_StartedStopTooLate ==
    \A t \in Threads :
        (InStep(t) /\ evlog[t] # <<>>) =>
            /\ should_stop
            /\ self(t).pre_funcs > 0 =>
                  /\ pc[t] \in {"pre_loop", "pre_check", "wf_advance"}
                  /\ k[t] = 0
                  /\ pc[t] \in {"pre_check", "wf_advance"} =>
                        /\ Len(calls[t]) = 1
                        /\ calls[t][1][1] = "pre" /\ calls[t][1][2] = 0
                  /\ pc[t] = "wf_advance" => lastExit[i[t]] = "pre_stop"
            /\ (self(t).pre_funcs = 0 /\ pc[t] = "wf_advance") =>
                  /\ mainInvoked[i[t]]
                  /\ calls[t][1][1] = "main"
                  /\ lastExit[i[t]] \in {"completed", "post_stop", "failed"}
                  /\ lastExit[i[t]] = "failed" =>
                        attempts[t] = self(t).max_retries + 1
                  /\ lastExit[i[t]] # "failed" =>
                        /\ attempts[t] = failures[t] + 1
                        /\ lastExit[i[t]] = "post_stop" <=> self(t).post_funcs > 0
                  /\ lastExit[i[t]] = "post_stop" => hook_calls(calls[t]) = 1

\* C33 witness: the listener requested a stop at 'started' of a step
\* without pre-hooks and with one retry; the main operation was called all
\* the same, failed, was called again and failed again.
C33_Witness ==
    /\ pc["caller"] = "fail_emit"
    /\ event_listeners = listeners_of(<<"stop_on_started">>)
    /\ self("caller").pre_funcs = 0
    /\ self("caller").max_retries = 1
    /\ evlog["caller"] = <<"started", "retrying">>
    /\ attempts["caller"] = 2
    /\ should_stop
    /\ ~resumed

\* The statements of the retry loop of Step.run that end in success: the
\* last check of the pre-hook loop lies behind them, the first post-hook
\* ahead.
MainPhase == {"main_call", "main_except", "emit_retrying", "post_init"}

\* The post-hook calls of log.
PostCalls(log) == Cardinality({j \in 1 .. Len(log) : log[j][1] = "post"})

\* C34: a stop requested while a step is in its main-operation phase, after
\* the last check of its pre-hook loop, does not keep the step from going
\* on: no post-hook and a successful main operation: the record is stored,
\* 'completed' emitted and the result returned, and the stop is first seen
\* at the check of line 143 before the next step, which does not begin; with
\* post-hooks, a successful main operation is followed by exactly one
\* post-hook call, and then line 122 returns with nothing stored.
C34_LateStop ==
    LET t == "background"
    IN  (atStop.set /\ atStop.pc \in MainPhase) =>
            /\ should_stop
            /\ (InRun(t) /\ i[t] = atStop.i + 1) => pc[t] \in {"wf_loop", "wf_check"}
            /\ InRun(t) => i[t] <= atStop.i + 1
            /\ (pc[t] = "wf_advance" /\ i[t] = atStop.i) =>
                  /\ lastExit[i[t]] \in {"completed", "post_stop", "failed"}
                  /\ lastExit[i[t]] = "completed" <=>
                        (self(t).post_funcs = 0 /\ failures[t] < attempts[t])
                  /\ lastExit[i[t]] = "post_stop" <=>
                        (self(t).post_funcs > 0 /\ failures[t] < attempts[t])
                  /\ lastExit[i[t]] = "completed" =>
                        /\ self(t).step_id \in DOMAIN data
                        /\ data[self(t).step_id].result = i[t]
                        /\ evlog[t][Len(evlog[t])] = "completed"
                        /\ retval[t] = i[t]
                        /\ PostCalls(calls[t]) = 0
                  /\ lastExit[i[t]] = "post_stop" =>
                        /\ PostCalls(calls[t]) = 1
                        /\ self(t).step_id \notin DOMAIN data
                        /\ "completed" \notin Statuses(evlog[t])

\* C34 witness: the caller requested the stop while the main operation of
\* the first of two steps, a step without post-hooks, was about to be
\* called; the step completed, its record is stored, and the run returned
\* at the check before the second step.
C34_Witness ==
    /\ atStop.set /\ atStop.pc = "main_call" /\ atStop.i = 0
    /\ nSteps = 2
    /\ steps[0].post_funcs = 0
    /\ pc["background"] = "returned"
    /\ lastExit[0] = "completed"
    /\ 0 \in DOMAIN data
    /\ current_step_index = 1
    /\ ~emitted[1]

\* C35: a step that has not begun when a stop takes effect is not lost: a
\* later run starts at current_step_index, so the cursor never lies beyond
\* a step that has not emitted 'started', and once a run has gone through
\* the whole step list every step has begun.
C35_UnbegunStepNotLost ==
    \A s \in StepIdx : current_step_index > s => nStarted[s] >= 1

\* C39: the metadata record of a Step.run carries the identifier of its own
\* step in the field step_id, from line 77 until the record is stored, and
\* so does every record in data, also when main_params binds step_id.
C39_RecordCarriesStepId ==
    /\ \A t \in Threads :
          (Executing(t) /\ pc[t] # "step_entry") =>
              metadata[t].step_id = self(t).step_id
    /\ \A id \in DOMAIN data : data[id].step_id = id

\* C36: two runs on one Context are not kept apart.  A run whose check of
\* line 143 finds the flag clear enters its step whether or not the other
\* run is executing or has executed that step, and line 146 writes i + 1
\* of the run that executes it whatever the cursor holds, also a smaller
\* value; each run walks its own range, one index after the other.
C36_NoMutualExclusion ==
    [][\A t \in Threads :
          /\ (pc[t] = "wf_check" /\ ~should_stop /\ pc'[t] # pc[t]) =>
                pc'[t] = "step_entry"
          /\ (pc[t] = "wf_advance" /\ pc'[t] # pc[t]) =>
                /\ current_step_index' = i[t] + 1
                /\ i'[t] = i[t] + 1]_vars

\* C36 witness: both runs have executed step 0 of a two-step workflow; one
\* of them has gone through step 1 as well and has written 2 to the cursor,
\* and the other has then written 1.
C36_Witness ==
    /\ nSteps = 2
    /\ nStarted[0] = 2
    /\ lastExit[1] = "completed"
    /\ pc["caller"] = "wf_loop" /\ i["caller"] = 2
    /\ pc["background"] = "wf_loop" /\ i["background"] = 1
    /\ current_step_index = 1

\* C31: an exception of a pre-hook or post-hook is not caught: the call of
\* run ends by it.  The engine has not set should_stop, data holds no record
\* of the step, neither 'failed' nor 'completed' was emitted, and
\* current_step_index is still the index of the step, so a later run is at
\* that step again; a Step.run, also the one of a later run, calls the
\* first pre-hook first.
C31_HookFailurePropagates ==
    /\ \A s \in StepIdx :
          lastExit[s] = "hook_raised" =>
              /\ current_step_index = s
              /\ \A t \in Threads :
                    /\ pc[t] = "raised" =>
                          /\ ~should_stop
                          /\ steps[s].step_id \notin DOMAIN data
                          /\ Statuses(evlog[t]) \cap {"failed", "completed"} = {}
                    /\ (InRun(t) /\ pc[t] # "wf_range") => i[t] = s
    /\ \A t \in Threads :
          (InStep(t) /\ calls[t] # <<>> /\ self(t).pre_funcs > 0) =>
              (calls[t][1][1] = "pre" /\ calls[t][1][2] = 0)

\* C31 witness: a hook of step 0 raised in the first run; the caller called
\* run again, and the step, begun a second time, has called its first
\* pre-hook again.
C31_Witness ==
    /\ steps[0].pre_funcs = 2
    /\ lastExit[0] = "hook_raised"
    /\ nStarted[0] = 2
    /\ pc["caller"] = "pre_check"
    /\ i["caller"] = 0 /\ k["caller"] = 0
    /\ Len(calls["caller"]) = 1
    /\ current_step_index = 0
    /\ data = <<>>

\* C32: an exception of a listener is not caught: the call of run ends by
\* it with current_step_index still at the index of the step, so a later
\* run is at that step again; when the listener raised for 'completed', the
\* record of the step, with its result, is stored already.
C32_ListenerFailurePropagates ==
    \A s \in StepIdx :
        lastExit[s] = "emit_raised" =>
            /\ current_step_index = s
            /\ \A t \in Threads :
                  /\ pc[t] = "raised" =>
                        /\ evlog[t] # <<>>
                        /\ evlog[t][Len(evlog[t])] = "completed" =>
                              /\ steps[s].step_id \in DOMAIN data
                              /\ data[steps[s].step_id].result = s
                  /\ (InRun(t) /\ pc[t] # "wf_range") => i[t] = s

\* C32 witness: the listener raised for 'completed' of step 0, whose record
\* is stored; the caller called run again, and the main operation of step 0
\* is about to be called a second time.
C32_Witness ==
    /\ lastExit[0] = "emit_raised"
    /\ steps[0].max_retries = 0
    /\ 0 \in DOMAIN data
    /\ data[0].error = Absent
    /\ nStarted[0] = 2
    /\ mainInvoked[0]
    /\ pc["caller"] = "main_call"
    /\ i["caller"] = 0
    /\ attempts["caller"] = 0
    /\ current_step_index = 0

====
